---------------------------- MODULE Spec2Model ----------------------------
(***************************************************************************)
(* A model of the rustlet container's response pipeline                    *)
(* (rustlet/src/rustlet_impls.rs, rustlet/src/macros.rs).                  *)
(*                                                                         *)
(* A RustletResponse is a cheap clone: headers_written, redirect, is_async *)
(* and buffer sit behind Arc and are shared by every clone, while          *)
(* additional_headers and is_complete are plain fields that each clone     *)
(* owns.  Every clone writes to the same WriteHandle.                      *)
(*                                                                         *)
(* Spec          any sequence of public RustletResponse calls on a         *)
(*               response and a clone of it, each clone driven by its own  *)
(*               thread.                                                   *)
(* SpecSync      flush, the header mutators and complete on a response     *)
(*               and a clone of it.                                        *)
(* SpecFraming   writes and flushes, then the dispatcher's one complete.   *)
(* SpecDispatch  execute_rustlet running a rustlet! handler on a worker,   *)
(*               the handler's macros acting on the handler-local clone,   *)
(*               and an async continuation thread acting on the clone it   *)
(*               captured with async_context!.                             *)
(* SpecSession   the session calls of RustletRequest, the clock and the   *)
(*               housekeeper on SESSION_MAP.                               *)
(* SpecCallback  api_callback on a worker serving one request after        *)
(*               another: routing, the handler or the template page, and   *)
(*               the error finalizer.                                      *)
(* SpecTemplate  process_rsp on a page with escape sequences, each served  *)
(*               by a chained handler.                                     *)
(* SpecOrdering  a handler that writes, flushes and sets the content type. *)
(* SpecContainer set_config, start, add_rustlet and add_rustlet_mapping of *)
(*               RustletContainer, and dispatches over the registry with   *)
(*               the read guards they hold.                                *)
(* SpecHeaders   a handler iterating the request headers with header_len!, *)
(*               header_name! and header_value!.                           *)
(* SpecClock     the session calls and the housekeeper under a wall clock  *)
(*               that can also be set back.                                *)
(* SpecLock      dispatches and registrations contending for the RwLock    *)
(*               of RUSTLETS, under weak fairness of the threads' steps.   *)
(***************************************************************************)
EXTENDS Integers, Sequences, FiniteSets, TLC

VARIABLES
    keep_alive,          \* RustletResponse.keep_alive (same in every clone)
    chained,             \* RustletResponse.chained (same in every clone)
    headers_written,     \* Arc<Mutex<bool>>, shared
    redirect,            \* Arc<Mutex<Option<String>>>, shared; <<>> is None, <<s>> is Some(s)
    is_async,            \* Arc<RwLock<bool>>, shared
    buffer,              \* Arc<RwLock<Vec<u8>>>, shared
    additional_headers,  \* Vec<(String, String)>, one per clone
    is_complete,         \* bool, one per clone
    live,                \* which clones exist
    pc,                  \* where the thread that owns each clone stands inside a call
    wire,                \* what the WriteHandle has been asked to do, in order
    callback_state,      \* wh.callback_state
    result,              \* what the last header mutator call returned
    nwrites,             \* how many write calls were made
    segs,                \* history: the runs of written bytes that a flush has closed
    open,                \* history: the bytes written since the last flush
    ncomplete,           \* history: how many times complete() was entered
    wpc,                 \* the worker's position in execute_rustlet
    cpc,                 \* the async continuation thread's position
    session_map,         \* SESSION_MAP: session id -> SessionData {mod_time, data}
    now,                 \* SystemTime::now() since UNIX_EPOCH, in milliseconds
    rustlet_config,      \* RUSTLET_CONFIG: <<>> is None, <<t>> is Some with session_timeout t
    session_ret,         \* what the last get_session call returned
    session_last,        \* history: the session call made last
    container,           \* RUSTLET_CONTAINER.http and RUSTLETS (mappings, rustlets), and
                         \* history: the container call made last, what start did, the
                         \* mappings add_rustlet_mapping returned Ok for, the handler
                         \* the last dispatch ran; dpc is the dispatching worker's
                         \* position and rlocks the read guards on RUSTLETS it holds;
                         \* wwait: a registering thread waits in lockw!(RUSTLETS)
    request,             \* the request being dispatched: what its Cookie header presented,
                         \* the id drawn by rand::random(), and RustletRequest.session_id
    route,               \* history: the uri dispatched, the request's keep-alive, the branch
                         \* do_api_callback took and whether the error finalizer ran
    stale_hw,            \* LOCALRUSTLET left by an earlier request of this worker:
                         \* <<>> when there is none, else <<its headers_written>>
    nreq,                \* how many requests this worker was given
    rsp,                 \* process_rsp: the page read into buf, start and end of the
                         \* inner loop, and history: the iterations made, what each
                         \* handler of an escape wrote, the error returned
    header_req           \* RustletRequest.headers and header_map, and a handler's loop
                         \* over 0..header_len!(): its bound, its index and, as history,
                         \* the (name, value) pairs it visited

vars == <<keep_alive, chained, headers_written, redirect, is_async, buffer,
          additional_headers, is_complete, live, pc, wire, callback_state,
          result, nwrites, segs, open, ncomplete, wpc, cpc,
          session_map, now, rustlet_config, session_ret, session_last, container,
          request, route, stale_hw, nreq, rsp, header_req>>

(* The statics of the container: SESSION_MAP, RUSTLET_CONFIG, RUSTLETS with
   the container's server, and the clock. *)
sessVars == <<session_map, now, rustlet_config, session_ret, session_last,
             container>>

(* The request a worker is serving and what the worker keeps between
   requests. *)
reqVars == <<request, route, stale_hw, nreq, rsp, header_req>>

(* What lies outside a response and the dispatch of its handler. *)
restVars == <<sessVars, reqVars>>

-----------------------------------------------------------------------------
(* Bounds of the model. *)

MaxWrites == 2

MaxWire == 2

MaxCompletes == 2

MaxSyncCompletes == 2

MaxTicks == 4

MaxDispatchWrites == 1

MaxDispatchWire == 1

MaxDispatchHeaders == 1

MaxSyncWire == 1

MaxRequests == 2

MaxCallbackWrites == 1

MaxCallbackWire == 1

MaxRspLoops == 4

MaxTemplateWrites == 1

MaxTemplateFlushes == 1

MaxHeaders == 1

MaxFramingWrites == 3

MaxFramingWire == 3

(* Bytes the code pushes. *)

CR == 13

LF == 10

ZeroChar == 48

(* The clones: the dispatcher's response, the handler-local clone, and the
   clone an async continuation carries. *)
Clones == {"disp", "local", "ctx"}

ApiClones == {"disp", "local"}

(* "Hello" and "Hello World\n": with three writes the buffer reaches the
   lengths 5, 10, 12, 15, 17, 22, 24, 29 and 36, so chunk lengths need the
   digits A-F and two hex digits. *)
Hello == <<72, 101, 108, 108, 111>>

HelloWorld == <<72, 101, 108, 108, 111, 32, 87, 111, 114, 108, 100, 10>>

Payloads == {Hello, HelloWorld}

None == <<>>

Some(x) == <<x>>

-----------------------------------------------------------------------------
(* format!("{:X}", n): upper-case hexadecimal, no leading zeros. *)

(* format!("{:x}", n) digits: lower case. *)
HexDigitLower(d) == IF d < 10 THEN 48 + d ELSE 87 + d

HexDigit(d) == IF d < 10 THEN 48 + d ELSE 55 + d

RECURSIVE UpperHex(_)
UpperHex(n) ==
    IF n < 16 THEN <<HexDigit(n)>>
    ELSE Append(UpperHex(n \div 16), HexDigit(n % 16))

(* The chunk length line of flush: format!("{:X}\r\n", buffer_len). *)
ChunkLenLine(n) == UpperHex(n) \o <<CR, LF>>

(* The bytes flush sends for a buffer `buf`: lines 508-527.  In keep-alive
   mode a non-empty buffer is wrapped as one chunk and a completion flush
   appends the terminal chunk; otherwise the buffer goes out as it is. *)
TerminalChunk == <<ZeroChar, CR, LF, CR, LF>>

(* A flush that sends the first buffered byte as a chunk of its own. *)
FlushBodySplit(buf, ka, complete) ==
    IF ka
    THEN (IF Len(buf) > 0
          THEN ChunkLenLine(1) \o <<Head(buf)>> \o <<CR, LF>>
               \o (IF Len(buf) > 1
                   THEN ChunkLenLine(Len(buf) - 1) \o Tail(buf) \o <<CR, LF>>
                   ELSE <<>>)
          ELSE <<>>)
         \o (IF complete THEN TerminalChunk ELSE <<>>)
    ELSE buf

(* A flush that frames the buffer as a chunk whatever its length. *)
FlushBodyAlwaysChunks(buf, ka, complete) ==
    IF ka
    THEN ChunkLenLine(Len(buf)) \o buf \o <<CR, LF>>
         \o (IF complete THEN TerminalChunk ELSE <<>>)
    ELSE buf

FlushBody(buf, ka, complete) ==
    IF ka
    THEN (IF Len(buf) > 0 THEN ChunkLenLine(Len(buf)) \o buf \o <<CR, LF>> ELSE <<>>)
         \o (IF complete THEN TerminalChunk ELSE <<>>)
    ELSE buf

(* Whether this flush appends the terminal chunk: lines 508, 520. *)
FlushTerminal(ka, complete) == ka /\ complete

(* A flush that forgets the headers_written latch. *)
FlushSendsHeadersNoLatch(hw, ch) == ~ch

(* Whether this flush serializes the header block: line 495. *)
FlushSendsHeaders(hw, ch) == ~hw /\ ~ch

(* HttpServer::build_headers(config, true, keep_alive, additional_headers,
   redirect): the serializer is outside the repository; the block is kept
   as the arguments it was built from. *)
HeaderBlock(ka, hdrs, redir) ==
    [keep_alive |-> ka, headers |-> hdrs, redirect |-> redir]


-----------------------------------------------------------------------------
(* What the WriteHandle is asked to do: wh.write(bytes) and wh.close().  A
   write carries the header block flush put in front of the buffer (hdr is
   <<>> when it put none), the bytes after it, and whether those bytes end
   with the terminal chunk. *)

WriteEvent(hdr, bytes, term) ==
    [op |-> "write", hdr |-> hdr, bytes |-> bytes, term |-> term]

CloseEvent == [op |-> "close", hdr |-> <<>>, bytes |-> <<>>, term |-> FALSE]

Idle(c) == live[c] /\ pc[c] = "idle"

(* How many wh.write calls the wire holds. *)
RECURSIVE WriteCount(_)
WriteCount(w) ==
    IF w = <<>> THEN 0
    ELSE (IF Head(w).op = "write" THEN 1 ELSE 0) + WriteCount(Tail(w))

(* The statics before any request: lazy_static! at lines 601-608. *)
NoSessions ==
    /\ session_map = <<>>
    /\ now = 0
    /\ rustlet_config = None
    /\ session_ret = None
    /\ session_last = [op |-> "none"]
    /\ container = [http |-> None, mappings |-> <<>>, rustlets |-> <<>>,
                     op |-> "none", ret |-> "none", starts |-> 0, installs |-> 0,
                     http_starts |-> 0, added |-> <<>>, ran |-> None,
                     dpc |-> "idle", rlocks |-> 0, wwait |-> FALSE]

(* A worker that has served nothing yet: LOCALRUSTLET is RefCell::new(None)
   (macros.rs 22-28). *)
NoRequest ==
    /\ request = [presented |-> None, fresh |-> 0, session_id |-> 0]
    /\ route = [uri |-> <<>>, branch |-> "none", keep_alive |-> FALSE,
                failed |-> FALSE]
    /\ stale_hw = None
    /\ nreq = 0
    /\ rsp = [page |-> <<>>, start |-> 0, end |-> 0, name |-> <<>>, loops |-> 0,
               outs |-> <<>>, err |-> "none"]
    /\ header_req = [headers |-> <<>>, header_map |-> None, len |-> 0, i |-> 0,
               visited |-> <<>>, pc |-> "none"]

(* RustletResponse::new *)
NewResponse(ka, ch) ==
    /\ keep_alive = ka
    /\ chained = ch
    /\ headers_written = FALSE
    /\ redirect = None
    /\ is_async = FALSE
    /\ buffer = <<>>
    /\ additional_headers = [c \in Clones |-> <<>>]
    /\ is_complete = [c \in Clones |-> FALSE]
    /\ live = [c \in Clones |-> c = "disp"]
    /\ pc = [c \in Clones |-> "idle"]
    /\ wire = <<>>
    /\ callback_state = "Init"
    /\ result = "Ok"
    /\ nwrites = 0
    /\ segs = <<>>
    /\ open = <<>>
    /\ ncomplete = 0

(* #[derive(Clone)]: the Arc fields stay shared, additional_headers and
   is_complete are copied. *)
CloneResponse(src, dst) ==
    /\ Idle(src)
    /\ ~live[dst]
    /\ live' = [live EXCEPT ![dst] = TRUE]
    /\ additional_headers' = [additional_headers EXCEPT ![dst] = additional_headers[src]]
    /\ is_complete' = [is_complete EXCEPT ![dst] = is_complete[src]]
    /\ UNCHANGED <<keep_alive, chained, headers_written, redirect, is_async, buffer,
                   pc, wire, callback_state, result, nwrites, segs, open,
                   ncomplete>>

(* RustletResponse::write *)
Write(c, data) ==
    /\ Idle(c)
    /\ buffer' = buffer \o data
    /\ open' = open \o data
    /\ nwrites' = nwrites + 1
    /\ UNCHANGED <<keep_alive, chained, headers_written, redirect, is_async,
                   additional_headers, is_complete, live, pc, wire, callback_state,
                   result, segs,
                   ncomplete>>

(* A flush that leaves the sent bytes in the buffer. *)
FlushKeepsBuffer(buf) == buf

(* buffer.clear() at the end of flush: line 544. *)
BufferAfterFlush(buf) == <<>>

(* The body of RustletResponse::flush, run under the buffer's write lock. *)
DoFlush(c) ==
    LET hdr == IF FlushSendsHeaders(headers_written, chained)
               THEN <<HeaderBlock(keep_alive, additional_headers[c], redirect)>>
               ELSE <<>>
    IN  /\ wire' = Append(wire, WriteEvent(hdr,
                                           FlushBody(buffer, keep_alive, is_complete[c]),
                                           FlushTerminal(keep_alive, is_complete[c])))
        /\ headers_written' = TRUE
        /\ callback_state' = IF keep_alive THEN "HeadersChunked" ELSE "HeadersClose"
        /\ buffer' = BufferAfterFlush(buffer)
        /\ segs' = IF Len(open) > 0 THEN Append(segs, open) ELSE segs
        /\ open' = <<>>

(* RustletResponse::flush *)
Flush(c) ==
    /\ Idle(c)
    /\ DoFlush(c)
    /\ UNCHANGED <<keep_alive, chained, redirect, is_async, additional_headers,
                   is_complete, live, pc, result, nwrites,
                   ncomplete>>

(* Mutators that do not look at the latch. *)
MutatorAlwaysAllowed(hw) == TRUE

(* The test every header mutator makes first: get_headers_written(). *)
MutatorAllowed(hw) == ~hw

MutatorResult(hw) == IF MutatorAllowed(hw) THEN "Ok" ELSE "OrderingError"

(* The push of set_cookie, add_header and set_content_type onto the clone's
   own additional_headers, or the OrderingError. *)
PushHeader(c, header) ==
    /\ Idle(c)
    /\ additional_headers' =
           IF MutatorAllowed(headers_written)
           THEN [additional_headers EXCEPT ![c] = Append(@, header)]
           ELSE additional_headers
    /\ result' = MutatorResult(headers_written)
    /\ UNCHANGED <<keep_alive, chained, headers_written, redirect, is_async, buffer,
                   is_complete, live, pc, wire, callback_state, nwrites, segs, open,
                   ncomplete>>

(* RustletResponse::set_cookie: format!("{}={}; {}", name, value, other) *)
CookieHeader(name, value, other) ==
    <<"Set-Cookie", name \o "=" \o value \o "; " \o other>>

SetCookie(c, name, value, other) == PushHeader(c, CookieHeader(name, value, other))

(* RustletResponse::add_header *)
AddHeader(c, name, value) == PushHeader(c, <<name, value>>)

(* RustletResponse::set_content_type *)
SetContentType(c, ctype) == PushHeader(c, <<"Content-Type", ctype>>)

(* RustletResponse::set_redirect, first half: the headers_written test.  The
   redirect lock is taken only afterwards, so a flush of another clone can
   run in between. *)
SetRedirect(c) ==
    /\ Idle(c)
    /\ pc' = [pc EXCEPT ![c] = IF MutatorAllowed(headers_written)
                               THEN "set_redirect" ELSE "idle"]
    /\ result' = MutatorResult(headers_written)
    /\ UNCHANGED <<keep_alive, chained, headers_written, redirect, is_async, buffer,
                   additional_headers, is_complete, live, wire, callback_state,
                   nwrites, segs, open,
                   ncomplete>>

(* RustletResponse::set_redirect, second half: *r = Some(value). *)
SetRedirectStore(c, value) ==
    /\ live[c]
    /\ pc[c] = "set_redirect"
    /\ redirect' = Some(value)
    /\ pc' = [pc EXCEPT ![c] = "idle"]
    /\ UNCHANGED <<keep_alive, chained, headers_written, is_async, buffer,
                   additional_headers, is_complete, live, wire, callback_state,
                   result, nwrites, segs, open,
                   ncomplete>>

(* RustletResponse::set_is_async *)
SetIsAsync(c, value) ==
    /\ Idle(c)
    /\ is_async' = value
    /\ UNCHANGED <<keep_alive, chained, headers_written, redirect, buffer,
                   additional_headers, is_complete, live, pc, wire, callback_state,
                   result, nwrites, segs, open,
                   ncomplete>>

(* A complete that does not look at is_async. *)
CompleteDecisionNoAsync(ch, async) == IF ch THEN "flush" ELSE "complete"

(* A complete that treats a chained response like any other. *)
CompleteDecisionNoChain(ch, async) == IF async THEN "return" ELSE "complete"

(* The decision complete takes at lines 567-575 after reading is_async:
   "flush" for a chained response, "return" while is_async is set, and
   otherwise "complete": is_complete = true, then the completion flush. *)
CompleteDecision(ch, async) ==
    IF ch THEN "flush" ELSE IF async THEN "return" ELSE "complete"

CompleteEntry(c) ==
    LET d == CompleteDecision(chained, is_async)
    IN  /\ pc' = [pc EXCEPT ![c] = IF d = "return" THEN "idle" ELSE "complete_flush"]
        /\ is_complete' = [is_complete EXCEPT ![c] = IF d = "complete" THEN TRUE ELSE @]
        /\ ncomplete' = ncomplete + 1

(* RustletResponse::complete, up to the flush. *)
Complete(c) ==
    /\ Idle(c)
    /\ CompleteEntry(c)
    /\ UNCHANGED <<keep_alive, chained, headers_written, redirect, is_async, buffer,
                   additional_headers, live, wire, callback_state, result, nwrites,
                   segs, open>>

(* RustletResponse::async_complete: set_is_async(false) ... *)
AsyncComplete(c) ==
    /\ Idle(c)
    /\ is_async' = FALSE
    /\ pc' = [pc EXCEPT ![c] = "async_complete"]
    /\ UNCHANGED <<keep_alive, chained, headers_written, redirect, buffer,
                   additional_headers, is_complete, live, wire, callback_state,
                   result, nwrites, segs, open,
                   ncomplete>>

(* ... then self.complete(), up to the flush. *)
AsyncCompleteCall(c) ==
    /\ live[c]
    /\ pc[c] = "async_complete"
    /\ CompleteEntry(c)
    /\ UNCHANGED <<keep_alive, chained, headers_written, redirect, is_async, buffer,
                   additional_headers, live, wire, callback_state, result, nwrites,
                   segs, open>>

(* A complete that closes the handle of a keep-alive response only. *)
CompleteClosesKeepAlive(ch, ka) == ~ch /\ ka

(* Whether complete closes the write handle after its flush: lines 567, 577. *)
CompleteCloses(ch, ka) == ~ch /\ ~ka

(* complete's self.flush() *)
CompleteFlush(c) ==
    /\ live[c]
    /\ pc[c] = "complete_flush"
    /\ DoFlush(c)
    /\ pc' = [pc EXCEPT ![c] = IF CompleteCloses(chained, keep_alive)
                               THEN "complete_close" ELSE "idle"]
    /\ UNCHANGED <<keep_alive, chained, redirect, is_async, additional_headers,
                   is_complete, live, result, nwrites,
                   ncomplete>>

(* complete's self.wh.close() *)
CompleteClose(c) ==
    /\ live[c]
    /\ pc[c] = "complete_close"
    /\ wire' = Append(wire, CloseEvent)
    /\ pc' = [pc EXCEPT ![c] = "idle"]
    /\ UNCHANGED <<keep_alive, chained, headers_written, redirect, is_async, buffer,
                   additional_headers, is_complete, live, callback_state, result,
                   nwrites, segs, open,
                   ncomplete>>

-----------------------------------------------------------------------------
(* Spec: a response made by RustletResponse::new, a clone of it, and any
   sequence of write, flush, set_is_async, complete and async_complete calls
   on the two, the clones' calls interleaving at the points where no lock
   is held. *)

Init ==
    /\ \E ka \in BOOLEAN, ch \in BOOLEAN : NewResponse(ka, ch)
    /\ wpc = "api"
    /\ cpc = "none"
    /\ NoSessions
    /\ NoRequest

Next ==
    \/ \E c \in ApiClones :
           CloneResponse("disp", c) /\ UNCHANGED <<wpc, cpc, restVars>>
    \/ \E c \in ApiClones :
           nwrites < MaxWrites /\ Write(c, Hello) /\ UNCHANGED <<wpc, cpc, restVars>>
    \/ \E c \in ApiClones :
           WriteCount(wire) < MaxWire /\ Flush(c) /\ UNCHANGED <<wpc, cpc, restVars>>
    \/ \E c \in ApiClones, v \in BOOLEAN :
           SetIsAsync(c, v) /\ UNCHANGED <<wpc, cpc, restVars>>
    \/ \E c \in ApiClones :
           ncomplete < MaxCompletes /\ Complete(c) /\ UNCHANGED <<wpc, cpc, restVars>>
    \/ \E c \in ApiClones :
           ncomplete < MaxCompletes /\ AsyncComplete(c) /\ UNCHANGED <<wpc, cpc, restVars>>
    \/ \E c \in ApiClones :
           AsyncCompleteCall(c) /\ UNCHANGED <<wpc, cpc, restVars>>
    \/ \E c \in ApiClones :
           CompleteFlush(c) /\ UNCHANGED <<wpc, cpc, restVars>>
    \/ \E c \in ApiClones :
           CompleteClose(c) /\ UNCHANGED <<wpc, cpc, restVars>>

Spec == Init /\ [][Next]_vars

-----------------------------------------------------------------------------
(* SpecSync: the calls a synchronous handler and its dispatcher make, on a
   response and a clone of it: flush, the header mutators and complete.
   The body bytes play no part in what the mutators and complete decide;
   Spec and SpecFraming cover them. *)

(* A header mutator call may start while the clones hold fewer than
   MaxHeaders headers between them, and at any time once headers are written
   (it then adds nothing). *)
MayMutate(c) ==
    \/ headers_written
    \/ Len(additional_headers["disp"]) + Len(additional_headers["local"]) < MaxHeaders

MutatorCall(c) ==
    \/ SetCookie(c, "abc", "def", "")
    \/ AddHeader(c, "my_header", "ok")
    \/ SetContentType(c, "text/plain")
    \/ SetRedirect(c)

NextSync ==
    \/ \E c \in ApiClones :
           CloneResponse("disp", c) /\ UNCHANGED <<wpc, cpc, restVars>>
    \/ \E c \in ApiClones :
           WriteCount(wire) < MaxSyncWire /\ Flush(c) /\ UNCHANGED <<wpc, cpc, restVars>>
    \/ \E c \in ApiClones :
           MayMutate(c) /\ SetCookie(c, "abc", "def", "") /\ UNCHANGED <<wpc, cpc, restVars>>
    \/ \E c \in ApiClones :
           MayMutate(c) /\ AddHeader(c, "my_header", "ok") /\ UNCHANGED <<wpc, cpc, restVars>>
    \/ \E c \in ApiClones :
           MayMutate(c) /\ SetContentType(c, "text/plain") /\ UNCHANGED <<wpc, cpc, restVars>>
    \/ \E c \in ApiClones :
           SetRedirect(c) /\ UNCHANGED <<wpc, cpc, restVars>>
    \/ \E c \in ApiClones :
           SetRedirectStore(c, "http://www.disney.com") /\ UNCHANGED <<wpc, cpc, restVars>>
    \/ \E c \in ApiClones :
           ncomplete < MaxSyncCompletes /\ Complete(c) /\ UNCHANGED <<wpc, cpc, restVars>>
    \/ \E c \in ApiClones :
           CompleteFlush(c) /\ UNCHANGED <<wpc, cpc, restVars>>
    \/ \E c \in ApiClones :
           CompleteClose(c) /\ UNCHANGED <<wpc, cpc, restVars>>

SpecSync == Init /\ [][NextSync]_vars

-----------------------------------------------------------------------------
(* SpecFraming: the life of a synchronous response.  The handler writes and
   flushes through the response or its handler-local clone, then the
   dispatcher calls complete once and nothing is called after it. *)

InitFraming ==
    /\ \E ka \in BOOLEAN : NewResponse(ka, FALSE)
    /\ wpc = "api"
    /\ cpc = "none"
    /\ NoSessions
    /\ NoRequest

NextFraming ==
    \/ ncomplete = 0 /\ CloneResponse("disp", "local") /\ UNCHANGED <<wpc, cpc, restVars>>
    \/ \E c \in ApiClones, d \in Payloads :
           ncomplete = 0 /\ nwrites < MaxFramingWrites /\ Write(c, d) /\ UNCHANGED <<wpc, cpc, restVars>>
    \/ \E c \in ApiClones :
           ncomplete = 0 /\ WriteCount(wire) < MaxFramingWire /\ Flush(c) /\ UNCHANGED <<wpc, cpc, restVars>>
    \/ ncomplete = 0 /\ Complete("disp") /\ UNCHANGED <<wpc, cpc, restVars>>
    \/ CompleteFlush("disp") /\ UNCHANGED <<wpc, cpc, restVars>>
    \/ CompleteClose("disp") /\ UNCHANGED <<wpc, cpc, restVars>>

SpecFraming == InitFraming /\ [][NextFraming]_vars

-----------------------------------------------------------------------------
(* SpecDispatch: execute_rustlet with a registered rustlet! handler.

   wpc   "new"        the response is constructed (line 788)
         "call"       the session cookie is decided (lines 804-831)
         "handler"    the closure has put clones into LOCALRUSTLET and the
                      handler body runs; its macros act on the clone "local"
         "returned"   the handler returned Ok (line 841)
         "completing" response.complete() was called (line 842)
   cpc   "none"       no continuation thread
         "running"    the thread the handler spawned with the async context
                      runs; its macros act on the clone "ctx"
         "done"       it has called async_complete!() and ended *)

respVars == <<keep_alive, chained, headers_written, redirect, is_async, buffer,
              additional_headers, is_complete, live, pc, wire, callback_state,
              result, nwrites, segs, open, ncomplete>>

InitDispatch ==
    /\ \E ka \in BOOLEAN, ch \in BOOLEAN : NewResponse(ka, ch)
    /\ wpc = "new"
    /\ cpc = "none"
    /\ NoSessions
    /\ NoRequest

(* Strings that the code takes apart are kept as sequences of tokens: a
   word, or a single character. *)

(* str::split(sep): the pieces between the separators, empty ones kept. *)
RECURSIVE SplitOn(_, _, _)
SplitOn(s, sep, piece) ==
    IF s = <<>> THEN <<piece>>
    ELSE IF Head(s) = sep THEN <<piece>> \o SplitOn(Tail(s), sep, <<>>)
    ELSE SplitOn(Tail(s), sep, Append(piece, Head(s)))

(* str::trim() *)
RECURSIVE Trim(_)
Trim(s) ==
    IF s = <<>> THEN s
    ELSE IF Head(s) = " " THEN Trim(Tail(s))
    ELSE IF s[Len(s)] = " " THEN Trim(SubSeq(s, 1, Len(s) - 1))
    ELSE s

(* RustletRequest::get_cookie, lines 245-257: the first cookie of the Cookie
   header, split at ";" and trimmed, whose "="-split has at least two pieces
   and `name` as the first; its second piece is returned. *)
RECURSIVE FindCookie(_, _)
FindCookie(cookies, name) ==
    IF cookies = <<>> THEN None
    ELSE LET cookie_spl == SplitOn(Trim(Head(cookies)), "=", <<>>)
         IN  IF Len(cookie_spl) >= 2 /\ cookie_spl[1] = <<name>>
             THEN Some(cookie_spl[2])
             ELSE FindCookie(Tail(cookies), name)

GetCookie(cookie_str, name) ==
    IF cookie_str = None THEN None
    ELSE FindCookie(SplitOn(cookie_str[1], ";", <<>>), name)

Digits == <<"0", "1", "2", "3", "4", "5", "6", "7", "8", "9">>

DigitValue(t) == (CHOOSE i \in DOMAIN Digits : Digits[i] = t) - 1

(* str::parse::<u128>() of decimal digits: Some(n), or None for the Err. *)
RECURSIVE ParseDigits(_, _)
ParseDigits(s, acc) ==
    IF s = <<>> THEN Some(acc)
    ELSE IF \E i \in DOMAIN Digits : Digits[i] = Head(s)
    THEN ParseDigits(Tail(s), acc * 10 + DigitValue(Head(s)))
    ELSE None

ParseU128(s) == IF s = <<>> THEN None ELSE ParseDigits(s, 0)

(* format!("{}", id): decimal. *)
RECURSIVE ToDecimal(_)
ToDecimal(n) ==
    IF n < 10 THEN Digits[n + 1] ELSE ToDecimal(n \div 10) \o Digits[(n % 10) + 1]

(* The Cookie headers a request can carry, each with what it presents as
   rustletsessionid: <<x>> when the value parses as u128, <<>> otherwise. *)
CookieInputs ==
    { [hdr |-> None, presents |-> None],
      [hdr |-> Some(<<"rustletsessionid", "=", "5">>), presents |-> Some(5)],
      [hdr |-> Some(<<"abc", "=", "def", ";", " ", "rustletsessionid", "=", "5">>),
       presents |-> Some(5)],
      [hdr |-> Some(<<"rustletsessionid", "=", "x">>), presents |-> None],
      [hdr |-> Some(<<"abc", "=", "def">>), presents |-> None] }

(* What rand::random() may return: the id the request presents, or another. *)
RandomIds == {5, 16}

(* A dispatcher that sends Set-Cookie whatever the request presented. *)
NeedsSetCookieAlways(rsessionid, id) == TRUE

(* Line 826: if rsessionid == id *)
NeedsSetCookie(rsessionid, id) == rsessionid = id

(* Lines 804-831: the session id is the parsed rustletsessionid cookie, or
   the random id when there is none or it does not parse; when the two are
   equal the dispatcher's response gets Set-Cookie. *)
SessionCookie ==
    /\ wpc = "new"
    /\ \E in \in CookieInputs, id \in RandomIds :
           LET cookie == GetCookie(in.hdr, "rustletsessionid")
               parsed == IF cookie = None THEN None ELSE ParseU128(cookie[1])
               rsessionid == IF parsed = None THEN id ELSE parsed[1]
           IN  /\ IF NeedsSetCookie(rsessionid, id)
                  THEN SetCookie("disp", "rustletsessionid", ToDecimal(id), "path=/")
                  ELSE UNCHANGED respVars
               /\ request' = [presented |-> in.presents, fresh |-> id,
                              session_id |-> rsessionid]
    /\ wpc' = "call"
    /\ UNCHANGED <<cpc, sessVars, route, stale_hw, nreq, rsp, header_req>>

(* rustlet!: *f.borrow_mut() = Some((request.clone(), response.clone())) *)
HandlerEnter ==
    /\ wpc = "call"
    /\ CloneResponse("disp", "local")
    /\ wpc' = "handler"
    /\ UNCHANGED <<cpc, restVars>>

(* response!, flush!, add_header!, set_content_type!, set_cookie! and
   set_redirect! in the handler body, each on the handler-local clone. *)
HandlerMacro ==
    /\ wpc = "handler"
    /\ \/ nwrites < MaxDispatchWrites /\ Write("local", Hello)
       \/ WriteCount(wire) < MaxDispatchWire /\ Flush("local")
       \/ Len(additional_headers["local"]) < MaxDispatchHeaders
              /\ AddHeader("local", "my_header", "ok")
       \/ Len(additional_headers["local"]) < MaxDispatchHeaders
              /\ SetContentType("local", "text/plain")
       \/ Len(additional_headers["local"]) < MaxDispatchHeaders
              /\ SetCookie("local", "abc", "def", "")
       \/ SetRedirect("local")
       \/ SetRedirectStore("local", "http://www.disney.com")
    /\ UNCHANGED <<wpc, cpc, restVars>>

(* async_context!(): response.set_is_async(true), then clones of the
   handler-local pair are handed to the thread the handler spawns, which
   installs them with async_context!(ac). *)
AsyncContext ==
    /\ wpc = "handler"
    /\ Idle("local")
    /\ ~live["ctx"]
    /\ is_async' = TRUE
    /\ live' = [live EXCEPT !["ctx"] = TRUE]
    /\ additional_headers' = [additional_headers EXCEPT !["ctx"] = additional_headers["local"]]
    /\ is_complete' = [is_complete EXCEPT !["ctx"] = is_complete["local"]]
    /\ cpc' = "running"
    /\ UNCHANGED <<keep_alive, chained, headers_written, redirect, buffer, pc, wire,
                   callback_state, result, nwrites, segs, open, ncomplete, wpc,
                   restVars>>

(* The handler body ends and the closure returns Ok(()). *)
HandlerReturn ==
    /\ wpc = "handler"
    /\ pc["local"] = "idle"
    /\ wpc' = "returned"
    /\ UNCHANGED <<respVars, cpc, restVars>>

(* execute_rustlet line 842: response.complete()? *)
DispatcherComplete ==
    /\ wpc = "returned"
    /\ Complete("disp")
    /\ wpc' = "completing"
    /\ UNCHANGED <<cpc, restVars>>

DispatcherCompleteStep ==
    /\ wpc = "completing"
    /\ \/ CompleteFlush("disp")
       \/ CompleteClose("disp")
    /\ UNCHANGED <<wpc, cpc, restVars>>

(* response! and flush! on the continuation thread. *)
ContinuationMacro ==
    /\ cpc = "running"
    /\ \/ nwrites < MaxDispatchWrites /\ Write("ctx", Hello)
       \/ WriteCount(wire) < MaxDispatchWire /\ Flush("ctx")
    /\ UNCHANGED <<wpc, cpc, restVars>>

(* async_complete!() on the continuation thread, its last statement. *)
ContinuationAsyncComplete ==
    /\ cpc = "running"
    /\ AsyncComplete("ctx")
    /\ cpc' = "done"
    /\ UNCHANGED <<wpc, restVars>>

ContinuationCompleteStep ==
    /\ cpc = "done"
    /\ \/ AsyncCompleteCall("ctx")
       \/ CompleteFlush("ctx")
       \/ CompleteClose("ctx")
    /\ UNCHANGED <<wpc, cpc, restVars>>

NextDispatch ==
    \/ SessionCookie
    \/ HandlerEnter
    \/ HandlerMacro
    \/ AsyncContext
    \/ HandlerReturn
    \/ DispatcherComplete
    \/ DispatcherCompleteStep
    \/ ContinuationMacro
    \/ ContinuationAsyncComplete
    \/ ContinuationCompleteStep

SpecDispatch == InitDispatch /\ [][NextDispatch]_vars

(* execute_rustlet has returned and the continuation, if any, has ended. *)
WorkerDone == wpc = "completing" /\ pc["disp"] = "idle"

ContinuationDone == cpc = "done" /\ pc["ctx"] = "idle"

-----------------------------------------------------------------------------
(* SpecSession: the session calls of RustletRequest on the container's
   SESSION_MAP, the clock, set_config and the housekeeper.  Every call holds
   the map's write lock from its first to its last statement. *)

SessionIds == {1, 2}

SessionKeys == {"abc", "def"}

(* Values of a two-byte type: one fits a byte, one does not. *)
SessionValues == {7, 300}

SessionTimeouts == {0, 1}

(* The clock moves in steps of half a second. *)
TickMs == 500

(* An encoder that drops the high byte. *)
EncodeLowByte(v) == <<0, v % 256>>

(* value.write(&mut writer): the bytes stored for a value. *)
Encode(v) == <<v \div 256, v % 256>>

(* Readable::read(&mut BinReader::new(..)): the value of stored bytes. *)
Decode(b) == b[1] * 256 + b[2]

(* SessionData::new() *)
NewSessionData == [mod_time |-> now, data |-> <<>>]

(* HashMap::insert and HashMap::remove on a map kept as a function. *)
MapInsert(m, k, v) == [x \in (DOMAIN m) \cup {k} |-> IF x = k THEN v ELSE m[x]]

MapRemove(m, k) == [x \in (DOMAIN m) \ {k} |-> m[x]]

respFrame == <<keep_alive, chained, headers_written, redirect, is_async, buffer,
               additional_headers, is_complete, live, pc, wire, callback_state,
               result, nwrites, segs, open, ncomplete, wpc, cpc, reqVars>>

(* What session_last keeps of the call before a get_session. *)
Previous == IF session_last.op \in {"set", "remove"}
            THEN session_last ELSE [op |-> "other"]

(* A get_session that only looks: a missing session stays missing. *)
GetSessionLooksOnly(id, name) ==
    /\ session_map' =
           IF id \in DOMAIN session_map
           THEN [session_map EXCEPT ![id] = [@ EXCEPT !.mod_time = now]]
           ELSE session_map
    /\ session_ret' =
           IF id \in DOMAIN session_map /\ name \in DOMAIN session_map[id].data
           THEN Some(Decode(session_map[id].data[name]))
           ELSE None
    /\ session_last' = [op |-> "get", id |-> id, key |-> name, prev |-> Previous]
    /\ UNCHANGED <<now, rustlet_config, respFrame, container>>

(* RustletRequest::get_session with self.session_id = id *)
GetSession(id, name) ==
    /\ IF id \in DOMAIN session_map
       THEN /\ session_map' =
                   [session_map EXCEPT ![id] = [@ EXCEPT !.mod_time = now]]
            /\ session_ret' =
                   IF name \in DOMAIN session_map[id].data
                   THEN Some(Decode(session_map[id].data[name]))
                   ELSE None
       ELSE /\ session_map' = MapInsert(session_map, id, NewSessionData)
            /\ session_ret' = None
    /\ session_last' = [op |-> "get", id |-> id, key |-> name, prev |-> Previous]
    /\ UNCHANGED <<now, rustlet_config, respFrame, container>>

(* RustletRequest::set_session *)
SetSession(id, name, value) ==
    /\ session_map' =
           IF id \in DOMAIN session_map
           THEN [session_map EXCEPT ![id] =
                    [mod_time |-> now,
                     data |-> MapInsert(@.data, name, Encode(value))]]
           ELSE MapInsert(session_map, id,
                          [mod_time |-> now,
                           data |-> MapInsert(<<>>, name, Encode(value))])
    /\ session_last' = [op |-> "set", id |-> id, key |-> name, val |-> value]
    /\ UNCHANGED <<now, rustlet_config, session_ret, respFrame, container>>

(* RustletRequest::remove_session_entry *)
RemoveSessionEntry(id, name) ==
    /\ session_map' =
           IF id \in DOMAIN session_map
           THEN [session_map EXCEPT ![id] =
                    [mod_time |-> now, data |-> MapRemove(@.data, name)]]
           ELSE session_map
    /\ session_last' = [op |-> "remove", id |-> id, key |-> name]
    /\ UNCHANGED <<now, rustlet_config, session_ret, respFrame, container>>

(* RustletRequest::invalidate_session *)
InvalidateSession(id) ==
    /\ session_map' = MapRemove(session_map, id)
    /\ session_last' = [op |-> "invalidate"]
    /\ UNCHANGED <<now, rustlet_config, session_ret, respFrame, container>>

(* RustletContainer::set_config: self.http = Some(HttpServer::new(..)), a
   server without callbacks that is not started, and
   *static_config = Some(config) *)
SetConfig(t) ==
    /\ rustlet_config' = Some(t)
    /\ container' = [container EXCEPT !.http = Some([callbacks |-> FALSE,
                                                      started |-> FALSE]),
                                       !.op = "set_config", !.ret = "Ok"]
    /\ session_last' = [op |-> "set_config"]
    /\ UNCHANGED <<session_map, now, session_ret, respFrame>>

(* Time passes. *)
Tick ==
    /\ now' = now + TickMs
    /\ session_last' = [op |-> "tick"]
    /\ UNCHANGED <<session_map, rustlet_config, session_ret, respFrame, container>>

(* housekeeper: the timeout it reads, 0 when no configuration is recorded. *)
SessionTimeout == IF rustlet_config = None THEN 0 ELSE rustlet_config[1]

(* A housekeeper that sweeps whatever the timeout is. *)
SweepAlways(t) == TRUE

(* housekeeper line 638: if session_timeout > 0 *)
SweepEnabled(t) == t > 0

(* housekeeper lines 651-656: diff = (now - v.mod_time) / 1000 in u128,
   removed when diff > session_timeout.  When mod_time is later than now
   and the subtraction wraps, the difference is 2^128 - (mod_time - now),
   and diff is more than any session_timeout, a u64 (2^64 - 1). *)
Expired(mod_time, t) ==
    IF now >= mod_time THEN (now - mod_time) \div 1000 > t ELSE TRUE

(* housekeeper *)
Housekeeper ==
    /\ session_map' =
           IF SweepEnabled(SessionTimeout)
           THEN [id \in {x \in DOMAIN session_map :
                            ~Expired(session_map[x].mod_time, SessionTimeout)}
                    |-> session_map[id]]
           ELSE session_map
    /\ session_last' = [op |-> "housekeeper"]
    /\ UNCHANGED <<now, rustlet_config, session_ret, respFrame, container>>

(* The wall clock is set back between two readings: SystemTime is not
   monotonic. *)
ClockBack ==
    /\ now >= TickMs
    /\ now' = now - TickMs
    /\ session_last' = [op |-> "clock_back"]
    /\ UNCHANGED <<session_map, rustlet_config, session_ret, respFrame, container>>

(* now - v.mod_time at line 652 for a mod_time later than now. *)
Underflows == \E id \in DOMAIN session_map : now < session_map[id].mod_time

(* housekeeper in a build with overflow checks: the subtraction of line 652
   panics on underflow, before anything is removed. *)
HousekeeperPanics ==
    /\ SweepEnabled(SessionTimeout)
    /\ Underflows
    /\ session_last' = [op |-> "housekeeper_panic"]
    /\ UNCHANGED <<session_map, now, rustlet_config, session_ret, respFrame,
                   container>>

InitSession ==
    /\ NewResponse(FALSE, FALSE)
    /\ wpc = "api"
    /\ cpc = "none"
    /\ NoSessions
    /\ NoRequest

NextSession ==
    \/ \E id \in SessionIds, k \in SessionKeys : GetSession(id, k)
    \/ \E id \in SessionIds, k \in SessionKeys, v \in SessionValues :
           SetSession(id, k, v)
    \/ \E id \in SessionIds, k \in SessionKeys : RemoveSessionEntry(id, k)
    \/ \E id \in SessionIds : InvalidateSession(id)
    \/ \E t \in SessionTimeouts : rustlet_config = None /\ SetConfig(t)
    \/ now < MaxTicks * TickMs /\ Tick
    \/ Housekeeper

SpecSession == InitSession /\ [][NextSession]_vars

(* SpecClock: the session calls on one key, the housekeeper, and a wall
   clock that moves forward and can be set back. *)
NextClock ==
    \/ \E id \in SessionIds : GetSession(id, "abc")
    \/ \E id \in SessionIds : SetSession(id, "abc", 7)
    \/ \E id \in SessionIds : RemoveSessionEntry(id, "abc")
    \/ \E id \in SessionIds : InvalidateSession(id)
    \/ \E t \in SessionTimeouts : rustlet_config = None /\ SetConfig(t)
    \/ now < MaxTicks * TickMs /\ Tick
    \/ ClockBack
    \/ Housekeeper
    \/ HousekeeperPanics

SpecClock == InitSession /\ [][NextClock]_vars

-----------------------------------------------------------------------------
(* What the wire shows. *)

HeaderEvents(w) == {i \in DOMAIN w : w[i].hdr # <<>>}

TerminalEvents(w) == {i \in DOMAIN w : w[i].term}

CloseEvents(w) == {i \in DOMAIN w : w[i].op = "close"}

HasSuffix(s, suf) ==
    /\ Len(s) >= Len(suf)
    /\ SubSeq(s, Len(s) - Len(suf) + 1, Len(s)) = suf

AllIdle == \A c \in Clones : pc[c] = "idle"

Range(f) == {f[i] : i \in DOMAIN f}

(* The bytes the write handle received after the header block. *)
RECURSIVE Body(_)
Body(w) == IF w = <<>> THEN <<>> ELSE Head(w).bytes \o Body(Tail(w))

RECURSIVE Flatten(_)
Flatten(ss) == IF ss = <<>> THEN <<>> ELSE Head(ss) \o Flatten(Tail(ss))

(* A reader of the chunked transfer coding that accepts upper-case
   hexadecimal lengths only: the value of a digit, or -1. *)
HexVal(b) ==
    IF b \in 48..57 THEN b - 48 ELSE IF b \in 65..70 THEN b - 55 ELSE -1

RECURSIVE ReadHex(_, _, _, _)
ReadHex(s, i, acc, nd) ==
    IF i <= Len(s) /\ HexVal(s[i]) >= 0
    THEN ReadHex(s, i + 1, acc * 16 + HexVal(s[i]), nd + 1)
    ELSE [val |-> acc, next |-> i, nd |-> nd]

CrLfAt(s, k) == k + 1 <= Len(s) /\ s[k] = CR /\ s[k + 1] = LF

(* Reads (HEX "\r\n" BYTES "\r\n")* "0\r\n\r\n" from position i to the end of
   s: ok says whether s has that form with every HEX greater than zero and
   equal to the length of its BYTES; chunks are the BYTES read. *)
RECURSIVE ParseChunks(_, _, _)
ParseChunks(s, i, chunks) ==
    LET h == ReadHex(s, i, 0, 0)
        j == h.next
    IN  IF h.nd = 0 \/ ~CrLfAt(s, j)
        THEN [ok |-> FALSE, chunks |-> chunks]
        ELSE IF h.val = 0
        THEN [ok |-> h.nd = 1 /\ CrLfAt(s, j + 2) /\ j + 3 = Len(s),
              chunks |-> chunks]
        ELSE IF s[i] # ZeroChar /\ CrLfAt(s, j + 2 + h.val)
        THEN ParseChunks(s, j + 4 + h.val,
                         Append(chunks, SubSeq(s, j + 2, j + 1 + h.val)))
        ELSE [ok |-> FALSE, chunks |-> chunks]

ParseChunked(s) == ParseChunks(s, 1, <<>>)

(* The synchronous response is finished: complete was called once and
   has returned. *)
Completed == ncomplete = 1 /\ AllIdle

-----------------------------------------------------------------------------
(* SpecCallback: a worker thread serving one request after another through
   api_callback (lines 679-764): do_api_callback routes the URI, a mapped
   and registered handler runs as in SpecDispatch (here with response! and
   flush! only, and either return), and a failure is handed to the error
   finalizer.  The response variables describe the RustletResponse made
   last; LOCALRUSTLET, which nothing clears, holds the handler-local clone
   of the current request while live["local"], and otherwise what stale_hw
   records of an earlier one.

   wpc   "idle"       nothing served yet
         "new" .. "completing"   as in SpecDispatch
         "erred"      the handler returned Err (line 832)
         "failed"     do_api_callback returned Err (line 709)
         "done"       api_callback returned
         "panicked"   the handler panicked and the worker unwinds
         "hooked"     on_panic has run *)

(* "Internal Server error. See logs for details." (lines 757, 917) *)
InternalServerError ==
    <<73, 110, 116, 101, 114, 110, 97, 108, 32, 83, 101, 114, 118, 101,
    114, 32, 101, 114, 114, 111, 114, 46, 32, 83, 101, 101, 32, 108, 111,
    103, 115, 32, 102, 111, 114, 32, 100, 101, 116, 97, 105, 108, 115, 46>>

(* SEPARATOR_LINE, lines 37-38: 132 times "-". *)
SeparatorLine == [i \in 1..132 |-> 45]

(* Lines 742-747: "\n</br>", SEPARATOR_LINE,
   "\n</br>Internal Server error. See logs for details.</body></html>" *)
ErrorTrailer ==
    <<10, 60, 47, 98, 114, 62>> \o SeparatorLine
    \o <<10, 60, 47, 98, 114, 62>>
    \o InternalServerError
    \o <<60, 47, 98, 111, 100, 121, 62, 60, 47, 104, 116, 109, 108, 62>>

(* format!("Rustlet '{}' does not exist.", rustlet_name), line 846 *)
RustletDoesNotExist(rustlet_name) ==
    <<82, 117, 115, 116, 108, 101, 116, 32, 39>>
    \o rustlet_name
    \o <<39, 32, 100, 111, 101, 115, 32, 110, 111, 116, 32, 101, 120, 105, 115, 116, 46>>

(* rustlets.rustlets: the registered handler names, as bytes ("abc", "a",
   "b"). *)
Rustlets == {<<97, 98, 99>>, <<97>>, <<98>>}

(* rustlets.mappings: "/abc" and "/x.rsp" are mapped to the registered
   "abc", "/gone" to "gone", which no rustlet! registered. *)
MappedUris == {<<"/", "a", "b", "c">>, <<"/", "x", ".", "r", "s", "p">>,
               <<"/", "g", "o", "n", "e">>}

Mappings ==
    [u \in MappedUris |-> IF u = <<"/", "g", "o", "n", "e">>
                          THEN <<103, 111, 110, 101>>
                          ELSE <<97, 98, 99>>]

(* The URIs of requests: the mapped ones, template pages in both cases, and
   paths that are neither. *)
Uris == MappedUris \cup {<<"/", "a", ".", "r", "s", "p">>,
                         <<"/", "a", ".", "R", "S", "P">>,
                         <<"/", "n", "o", "p", "e">>,
                         <<"/", "r", "s", "p">>}

(* The files a template URI can name under the document root: none (metadata
   fails, line 942), or a page without escape sequences. *)
RspFiles == {None, Some(Hello)}

(* str::to_lowercase(), on the letters the URIs are made of. *)
ToLowerChar(c) ==
    CASE c = "R" -> "r" [] c = "S" -> "s" [] c = "P" -> "p" [] OTHER -> c

ToLowercase(s) == [i \in DOMAIN s |-> ToLowerChar(s[i])]

(* str::ends_with *)
EndsWith(s, suf) == HasSuffix(s, suf)

(* A router that looks at the .rsp suffix before the route map. *)
RouteSuffixFirst(uri) ==
    IF EndsWith(ToLowercase(uri), <<".", "r", "s", "p">>) THEN "rsp"
    ELSE IF uri \in DOMAIN Mappings
    THEN (IF Mappings[uri] \in Rustlets THEN "rustlet" ELSE "no_rustlet")
    ELSE "error"

(* do_api_callback, lines 874-919, with execute_rustlet's lookup of the
   mapped name (line 785): which code serves the URI. *)
Route(uri) ==
    IF uri \in DOMAIN Mappings
    THEN (IF Mappings[uri] \in Rustlets THEN "rustlet" ELSE "no_rustlet")
    ELSE IF EndsWith(ToLowercase(uri), <<".", "r", "s", "p">>) THEN "rsp"
    ELSE "error"

(* wh.write(bytes) made directly on the write handle. *)
RawWrite(bytes) == WriteEvent(<<>>, bytes, HasSuffix(bytes, TerminalChunk))

(* The response headers_written the error finalizer reads from LOCALRUSTLET
   (lines 721-727): that of the pair the last handler on this thread left
   there, false when no handler ran on it yet. *)
SlotHeadersWritten ==
    IF live["local"] THEN headers_written
    ELSE IF stale_hw # None THEN stale_hw[1]
    ELSE FALSE

(* The slot once the response variables are taken over by a new response. *)
SlotKept == IF live["local"] THEN Some(headers_written) ELSE stale_hw

(* RustletResponse::new(wh, config, ka, ch), then write(data) if there is
   any: the new object's fields; the write handle and the connection are
   left as they are. *)
FreshResponse(ka, ch, data) ==
    /\ keep_alive' = ka
    /\ chained' = ch
    /\ headers_written' = FALSE
    /\ redirect' = None
    /\ is_async' = FALSE
    /\ buffer' = data
    /\ additional_headers' = [c \in Clones |-> <<>>]
    /\ is_complete' = [c \in Clones |-> FALSE]
    /\ live' = [c \in Clones |-> c = "disp"]
    /\ pc' = [c \in Clones |-> "idle"]
    /\ result' = "Ok"
    /\ nwrites' = IF data = <<>> THEN 0 ELSE 1
    /\ segs' = <<>>
    /\ open' = data
    /\ ncomplete' = 0
    /\ stale_hw' = SlotKept

(* process_rsp for a page without escape sequences, lines 957-1002: the
   header block, then the page as one chunk and the terminal chunk, or the
   page and close. *)
ProcessRspWrites(page, ka) ==
    <<WriteEvent(<<HeaderBlock(ka, <<>>, None)>>, <<>>, FALSE)>>
    \o (IF ka
        THEN <<RawWrite(ChunkLenLine(Len(page))), RawWrite(page),
               RawWrite(<<CR, LF>> \o TerminalChunk)>>
        ELSE <<RawWrite(page), CloseEvent>>)

(* api_callback called for a request: do_api_callback up to the branch it
   takes.  A registered handler gets its response (line 788) and goes on as
   in SpecDispatch; for an unregistered one the text is written to a new
   response and the write handle gets the terminal chunk or is closed (lines
   845-851); a template page is served by process_rsp or fails before its
   first write; any other URI has the error text written to a new response
   and the write handle closed (lines 916-918). *)
ApiCallback ==
    /\ wpc \in {"idle", "done"}
    /\ nreq < MaxRequests
    /\ \E uri \in Uris, ka \in BOOLEAN, file \in RspFiles :
           LET branch == Route(uri)
               fails == branch = "rsp" /\ file = None
           IN  /\ branch # "rsp" => file = None
               /\ route' = [uri |-> uri, branch |-> branch, keep_alive |-> ka,
                            failed |-> FALSE]
               /\ CASE branch = "rustlet" ->
                           /\ FreshResponse(ka, FALSE, <<>>)
                           /\ wire' = <<>>
                           /\ wpc' = "new"
                    [] branch = "no_rustlet" ->
                           /\ FreshResponse(ka, FALSE,
                                            RustletDoesNotExist(Mappings[uri]))
                           /\ wire' = IF ka THEN <<RawWrite(TerminalChunk)>>
                                      ELSE <<CloseEvent>>
                           /\ wpc' = "done"
                    [] branch = "rsp" ->
                           /\ FreshResponse(ka, FALSE, <<>>)
                           /\ wire' = IF fails THEN <<>>
                                      ELSE ProcessRspWrites(file[1], ka)
                           /\ wpc' = IF fails THEN "failed" ELSE "done"
                    [] branch = "error" ->
                           /\ FreshResponse(FALSE, FALSE, InternalServerError)
                           /\ wire' = <<CloseEvent>>
                           /\ wpc' = "done"
               /\ callback_state' =
                      IF branch = "rsp" /\ ~fails
                      THEN (IF ka THEN "HeadersChunked" ELSE "HeadersClose")
                      ELSE "Init"
    /\ request' = [presented |-> None, fresh |-> 0, session_id |-> 0]
    /\ nreq' = nreq + 1
    /\ UNCHANGED <<cpc, sessVars, rsp, header_req>>

(* response! and flush! in the handler body. *)
CallbackHandlerMacro ==
    /\ wpc = "handler"
    /\ \/ nwrites < MaxCallbackWrites /\ Write("local", Hello)
       \/ WriteCount(wire) < MaxCallbackWire /\ Flush("local")
    /\ UNCHANGED <<wpc, cpc, restVars>>

(* The handler body returns Err: `return Err(...)` in main.rs 75-83. *)
HandlerReturnErr ==
    /\ wpc = "handler"
    /\ pc["local"] = "idle"
    /\ wpc' = "erred"
    /\ UNCHANGED <<respVars, cpc, restVars>>

(* A dispatcher that hands the handler's error on without the flush. *)
DispatcherDropsOnErr ==
    /\ wpc = "erred"
    /\ wpc' = "failed"
    /\ UNCHANGED <<respVars, cpc, restVars>>

(* execute_rustlet lines 832-841: map_err flushes the dispatcher's response
   and hands the error on. *)
DispatcherFlushOnErr ==
    /\ wpc = "erred"
    /\ Flush("disp")
    /\ wpc' = "failed"
    /\ UNCHANGED <<cpc, restVars>>

(* execute_rustlet and do_api_callback return Ok, api_callback returns. *)
CallbackReturn ==
    /\ WorkerDone
    /\ wpc' = "done"
    /\ UNCHANGED <<respVars, cpc, restVars>>

(* api_callback lines 711-759: the error finalizer.  With the slot's
   headers_written set and no keep-alive the trailer is written to a new
   chained response and the write handle closed; with keep-alive the trailer
   goes to the write handle as a chunk, then the terminal chunk and close;
   with headers_written unset the error text is written to a new response
   and the write handle closed. *)
ErrorFinalizer ==
    /\ wpc = "failed"
    /\ IF SlotHeadersWritten
       THEN IF ~route.keep_alive
            THEN /\ FreshResponse(FALSE, TRUE, ErrorTrailer)
                 /\ wire' = Append(wire, CloseEvent)
                 /\ UNCHANGED callback_state
            ELSE /\ wire' = wire \o <<RawWrite(ChunkLenLine(Len(ErrorTrailer))),
                                     RawWrite(ErrorTrailer),
                                     RawWrite(<<CR, LF>> \o TerminalChunk),
                                     CloseEvent>>
                 /\ UNCHANGED <<keep_alive, chained, headers_written, redirect,
                                is_async, buffer, additional_headers, is_complete,
                                live, pc, callback_state, result, nwrites, segs,
                                open, ncomplete, stale_hw>>
       ELSE /\ FreshResponse(FALSE, FALSE, InternalServerError)
            /\ wire' = Append(wire, CloseEvent)
            /\ UNCHANGED callback_state
    /\ route' = [route EXCEPT !.failed = TRUE]
    /\ wpc' = "done"
    /\ UNCHANGED <<cpc, sessVars, request, nreq, rsp, header_req>>

(* The handler body panics (x.unwrap() on None, main.rs 85-93): the worker
   unwinds, dropping the dispatcher's response and its clones as they are;
   api_callback does not return. *)
HandlerPanic ==
    /\ wpc = "handler"
    /\ pc["local"] = "idle"
    /\ wpc' = "panicked"
    /\ UNCHANGED <<respVars, cpc, restVars>>

(* What HttpServer::do_house_keeping, which lies outside the repository and
   is handed the http context and the http configuration only (line 671),
   may do to the connection of the panicked worker: nothing, close it, or
   end its stream as the error finalizer does for the state the connection
   was left in and close it. *)
HouseKeepingWrites(outcome) ==
    IF outcome = "nothing" THEN <<>>
    ELSE IF outcome = "close" \/ callback_state = "Init" THEN <<CloseEvent>>
    ELSE IF callback_state = "HeadersChunked"
    THEN <<RawWrite(ChunkLenLine(Len(ErrorTrailer))), RawWrite(ErrorTrailer),
           RawWrite(<<CR, LF>> \o TerminalChunk), CloseEvent>>
    ELSE <<RawWrite(ErrorTrailer), CloseEvent>>

(* on_panic, lines 666-677: the container's write lock, then
   do_house_keeping. *)
OnPanic ==
    /\ wpc = "panicked"
    /\ \E outcome \in {"nothing", "close", "terminate"} :
           wire' = wire \o HouseKeepingWrites(outcome)
    /\ wpc' = "hooked"
    /\ UNCHANGED <<keep_alive, chained, headers_written, redirect, is_async, buffer,
                   additional_headers, is_complete, live, pc, callback_state,
                   result, nwrites, segs, open, ncomplete, cpc, restVars>>

InitCallback ==
    /\ NewResponse(FALSE, FALSE)
    /\ wpc = "idle"
    /\ cpc = "none"
    /\ NoSessions
    /\ NoRequest

NextCallback ==
    \/ ApiCallback
    \/ SessionCookie
    \/ HandlerEnter
    \/ CallbackHandlerMacro
    \/ HandlerReturn
    \/ HandlerReturnErr
    \/ DispatcherFlushOnErr
    \/ DispatcherComplete
    \/ DispatcherCompleteStep
    \/ CallbackReturn
    \/ ErrorFinalizer
    \/ HandlerPanic
    \/ OnPanic

SpecCallback == InitCallback /\ [][NextCallback]_vars

-----------------------------------------------------------------------------
(* SpecTemplate: api_callback for a template page that exists, served by
   process_rsp (lines 926-1053).  The file is read in one read, so amt is
   its length and the outer loop runs once; the inner loop is taken one
   iteration at a time.  The handler of an escape runs as in SpecDispatch on
   a chained response; it writes its output and may flush!.  Offsets into
   buf count from 0 as in the code.

   wpc   "idle"        nothing served yet
         "rsp_scan"    at line 971, about to look for the next "<@="
         "rsp_escape"  at line 1008, about to look for the ">"
         "new" .. "completing"   execute_rustlet for the escape's handler
         "failed"      process_rsp returned Err
         "done"        api_callback returned *)

LtChar == 60

AtChar == 64

EqChar == 61

GtChar == 62

(* <@=NAME> and <@=NAME without its end. *)
Opening(name) == <<LtChar, AtChar, EqChar>> \o name

Escape(name) == Opening(name) \o <<GtChar>>

(* S0 <@=a> S1 <@=b> S2 *)
Template(s0, s1, s2) == s0 \o Escape(<<97>>) \o s1 \o Escape(<<98>>) \o s2

TwoEscapePages ==
    {Template(s0, s1, s2) : s0 \in {<<>>, <<120>>}, s1 \in {<<>>, <<121>>},
                            s2 \in {<<>>, <<119>>}}

(* Pages whose last "<@=" has no ">" after it: at offset 0, after a static
   byte, right after an escape, and after an escape and a static byte. *)
UnterminatedPages ==
    {Opening(<<97>>), <<120>> \o Opening(<<97>>),
     Escape(<<97>>) \o Opening(<<98>>),
     <<120>> \o Escape(<<97>>) \o <<121>> \o Opening(<<98>>)}

(* The template files under the document root: the above, an empty file, a
   page without escapes, a page that starts with an escape, one that ends
   with an escape, and one that names the unregistered "z". *)
Pages ==
    TwoEscapePages \cup UnterminatedPages
        \cup {<<>>, <<120>>, Escape(<<97>>) \o <<120>>, <<120>> \o Escape(<<97>>),
              <<120>> \o Escape(<<122>>) \o <<121>>}

(* What the registered handlers write with response!: "a" writes "A", "b"
   writes "BB". *)
Out(name) == IF name = <<97>> THEN <<65>> ELSE <<66, 66>>

(* buf[lo..hi] *)
Slice(buf, lo, hi) == SubSeq(buf, lo + 1, hi)

(* A scan that takes "@=" for the opening of an escape. *)
IsTripleNoLt(buf, i) == buf[i + 1] = EqChar /\ buf[i] = AtChar

(* Line 973: buf[i] == '=' && buf[i - 1] == '@' && buf[i - 2] == '<' *)
IsTriple(buf, i) ==
    buf[i + 1] = EqChar /\ buf[i] = AtChar /\ buf[i - 1] = LtChar

(* Lines 971-978: end of the static segment that begins at start. *)
SegmentEnd(buf, start, amt) ==
    LET hits == {i \in (start + 2)..(amt - 1) : IsTriple(buf, i)}
    IN  IF hits = {} THEN amt
        ELSE (CHOOSE i \in hits : \A j \in hits : i <= j) - 2

(* Lines 1008-1009: the first i in end + 3..(amt - 1) with buf[i] == '>',
   or None. *)
CloseAt(buf, end, amt) ==
    LET hits == {i \in (end + 3)..(amt - 2) : buf[i + 1] = GtChar}
    IN  IF hits = {} THEN None
        ELSE Some(CHOOSE i \in hits : \A j \in hits : i <= j)

(* An interpreter that ends the page after every segment. *)
SegmentWritesAlwaysLast(seg, ka, last) ==
    IF ka
    THEN <<RawWrite(ChunkLenLine(Len(seg))), RawWrite(seg),
           RawWrite(<<CR, LF>> \o TerminalChunk)>>
    ELSE <<RawWrite(seg), CloseEvent>>

(* Lines 979-1002: the writes for the static segment seg; last says whether
   flen <= end. *)
SegmentWrites(seg, ka, last) ==
    IF ka
    THEN <<RawWrite(ChunkLenLine(Len(seg))), RawWrite(seg),
           RawWrite(IF last THEN <<CR, LF>> \o TerminalChunk ELSE <<CR, LF>>)>>
    ELSE <<RawWrite(seg)>> \o (IF last THEN <<CloseEvent>> ELSE <<>>)

(* api_callback for "/a.rsp": no mapping, process_rsp up to the inner loop:
   the file is read and the header block written (lines 941-966). *)
RspRequest ==
    /\ wpc = "idle"
    /\ \E page \in Pages, ka \in BOOLEAN :
           /\ rsp' = [page |-> page, start |-> 0, end |-> 0, name |-> <<>>,
                      loops |-> 0, outs |-> <<>>, err |-> "none"]
           /\ route' = [uri |-> <<"/", "a", ".", "r", "s", "p">>,
                        branch |-> Route(<<"/", "a", ".", "r", "s", "p">>),
                        keep_alive |-> ka, failed |-> FALSE]
           /\ wire' = <<WriteEvent(<<HeaderBlock(ka, <<>>, None)>>, <<>>, FALSE)>>
           /\ callback_state' = IF ka THEN "HeadersChunked" ELSE "HeadersClose"
    /\ wpc' = "rsp_scan"
    /\ nreq' = nreq + 1
    /\ UNCHANGED <<keep_alive, chained, headers_written, redirect, is_async, buffer,
                   additional_headers, is_complete, live, pc, result, nwrites,
                   segs, open, ncomplete, cpc, sessVars, request, stale_hw, header_req>>

(* Lines 970-1006 and 1044-1052: one pass of the inner loop up to the test
   end == amt; at the end of the file process_rsp returns Ok. *)
RspSegment ==
    /\ wpc = "rsp_scan"
    /\ rsp.loops < MaxRspLoops
    /\ LET amt == Len(rsp.page)
           end == SegmentEnd(rsp.page, rsp.start, amt)
       IN  /\ wire' = wire \o SegmentWrites(Slice(rsp.page, rsp.start, end),
                                            route.keep_alive, amt <= end)
           /\ rsp' = [rsp EXCEPT !.end = end, !.loops = @ + 1]
           /\ wpc' = IF end = amt THEN "done" ELSE "rsp_escape"
    /\ UNCHANGED <<keep_alive, chained, headers_written, redirect, is_async, buffer,
                   additional_headers, is_complete, live, pc, callback_state,
                   result, nwrites, segs, open, ncomplete, cpc, sessVars, request,
                   route, stale_hw, nreq, header_req>>

(* Lines 1008-1042 with execute_rustlet's lookup (785): if a ">" is found
   the handler between "<@=" and it is executed chained, a registered one
   with a new response (788), an unregistered one by lines 845-851; if none
   is found, the error is returned when start < end and the inner loop is
   taken again otherwise. *)
RspEscape ==
    /\ wpc = "rsp_escape"
    /\ LET amt == Len(rsp.page)
           close == CloseAt(rsp.page, rsp.end, amt)
           name == Slice(rsp.page, rsp.end + 3, close[1])
       IN  IF close # None
           THEN /\ rsp' = [rsp EXCEPT !.start = close[1] + 1, !.name = name]
                /\ IF name \in Rustlets
                   THEN /\ FreshResponse(route.keep_alive, TRUE, <<>>)
                        /\ wpc' = "new"
                        /\ UNCHANGED wire
                   ELSE /\ FreshResponse(route.keep_alive, TRUE,
                                         RustletDoesNotExist(name))
                        /\ wire' = Append(wire, IF route.keep_alive
                                                THEN RawWrite(TerminalChunk)
                                                ELSE CloseEvent)
                        /\ wpc' = "rsp_scan"
                /\ UNCHANGED route
           ELSE /\ IF rsp.start < rsp.end
                   THEN /\ rsp' = [rsp EXCEPT !.err = "InvalidRSPError"]
                        /\ wpc' = "failed"
                   ELSE /\ UNCHANGED rsp
                        /\ wpc' = "rsp_scan"
                /\ UNCHANGED <<respVars, route, stale_hw>>
    /\ UNCHANGED <<callback_state, cpc, sessVars, request, nreq, header_req>>

(* response! with the handler's output, and flush! after it, in the handler
   of an escape. *)
TemplateHandlerMacro ==
    /\ wpc = "handler"
    /\ \/ nwrites < MaxTemplateWrites /\ Write("local", Out(rsp.name))
       \/ Len(segs) < MaxTemplateFlushes /\ open # <<>> /\ Flush("local")
    /\ UNCHANGED <<wpc, cpc, restVars>>

(* execute_rustlet returns Ok to process_rsp, line 1028; start = i + 1 and
   the inner loop goes on. *)
RspResume ==
    /\ WorkerDone
    /\ rsp.name # <<>>
    /\ wpc' = "rsp_scan"
    /\ rsp' = [rsp EXCEPT !.outs = Append(@, Flatten(segs) \o open)]
    /\ UNCHANGED <<respVars, cpc, sessVars, request, route, stale_hw, nreq, header_req>>

InitTemplate == InitCallback

NextTemplate ==
    \/ RspRequest
    \/ RspSegment
    \/ RspEscape
    \/ SessionCookie
    \/ HandlerEnter
    \/ TemplateHandlerMacro
    \/ HandlerReturn
    \/ DispatcherComplete
    \/ DispatcherCompleteStep
    \/ RspResume
    \/ ErrorFinalizer

SpecTemplate == InitTemplate /\ [][NextTemplate]_vars

-----------------------------------------------------------------------------
(* SpecOrdering: execute_rustlet running a handler that writes one byte
   with response!, may flush!, and calls set_content_type!, which add_header!
   carries out and whose error it logs (macros.rs 743-803); the handler
   returns Ok and the dispatcher completes the response. *)

OrderingHandlerMacro ==
    /\ wpc = "handler"
    /\ \/ nwrites < MaxDispatchWrites /\ Write("local", <<120>>)
       \/ WriteCount(wire) < MaxDispatchWire /\ Flush("local")
       \/ Len(additional_headers["local"]) < MaxDispatchHeaders + 1
              /\ SetContentType("local", "text/plain")
    /\ UNCHANGED <<wpc, cpc, restVars>>

NextOrdering ==
    \/ SessionCookie
    \/ HandlerEnter
    \/ OrderingHandlerMacro
    \/ HandlerReturn
    \/ DispatcherComplete
    \/ DispatcherCompleteStep

SpecOrdering == InitDispatch /\ [][NextOrdering]_vars

-----------------------------------------------------------------------------
(* C1.  For a non-chained response and its clones, whatever write, flush,
   complete and async_complete calls are made, the header block goes to the
   write handle at most once, and the write that carries it is the first
   write on the handle (the block is the prefix of the first flush). *)
C1_HeadersOnce ==
    ~chained =>
        /\ Cardinality(HeaderEvents(wire)) <= 1
        /\ \A i \in HeaderEvents(wire) : \A j \in 1..(i - 1) : wire[j].op # "write"

(* Two flushes have happened on a non-chained response that has a clone and
   was completed; the first carried the header block. *)
C1_Witness ==
    /\ ~chained
    /\ live["local"]
    /\ ncomplete >= 1
    /\ WriteCount(wire) >= 2
    /\ wire[1].hdr # <<>>

(* C2.  Once headers_written is true, a call to add_header,
   set_content_type, set_redirect or set_cookie on the response or its clone
   returns the ordering error, leaves additional_headers and redirect as
   they were, and does not go on to store a redirect. *)
C2_MutatorsFailAfterHeaders ==
    [][\A c \in ApiClones :
          (headers_written /\ MutatorCall(c)) =>
              /\ result' = "OrderingError"
              /\ additional_headers' = additional_headers
              /\ redirect' = redirect
              /\ pc'[c] = "idle"]_vars

(* A mutator has returned the ordering error on a response with a clone. *)
C2_Witness ==
    /\ headers_written
    /\ live["local"]
    /\ result = "OrderingError"
    /\ AllIdle

(* C3.  A header a handler adds with add_header!, set_content_type! or
   set_cookie! before the headers are written is in the header block that
   is serialized, whether the handler's flush! or the dispatcher's complete
   serializes it: for a handler that takes no async context, every header
   in the handler-local clone's additional_headers is in every header block
   on the wire. *)
C3_HandlerHeadersSerialized ==
    cpc = "none" =>
        \A i \in HeaderEvents(wire) :
            Range(additional_headers["local"]) \subseteq Range(wire[i].hdr[1].headers)

(* C4.  For a non-chained response that is never made async, any number of
   complete calls puts at most one terminal chunk and at most one close on
   the write handle. *)
C4_CompleteOnce ==
    ~chained =>
        /\ Cardinality(TerminalEvents(wire)) <= 1
        /\ Cardinality(CloseEvents(wire)) <= 1

(* C5.  For a non-chained response whose handler captured an async
   context, whatever the order of the dispatcher's complete and the
   continuation's async_complete, the write handle never gets more than one
   terminal chunk or close, and once both have returned it got exactly one
   terminal chunk (keep-alive) or exactly one close (otherwise). *)
C5_AsyncTerminatesOnce ==
    (~chained /\ cpc # "none") =>
        /\ Cardinality(TerminalEvents(wire)) <= 1
        /\ Cardinality(CloseEvents(wire)) <= 1
        /\ (WorkerDone /\ ContinuationDone) =>
               IF keep_alive
               THEN Cardinality(TerminalEvents(wire)) = 1
               ELSE Cardinality(CloseEvents(wire)) = 1

(* C6.  While is_async is true on a non-chained response, the dispatcher's
   complete returns at once: it writes nothing to the write handle, does not
   close it, does not set is_complete and leaves the buffer as it is; and no
   step taken while is_async is true puts a terminal chunk or a close on the
   write handle, so they come only after async_complete has cleared
   is_async. *)
C6_AsyncDefersCompletion ==
    [][(is_async /\ ~chained) =>
          /\ DispatcherComplete =>
                 /\ wire' = wire
                 /\ buffer' = buffer
                 /\ is_complete' = is_complete
                 /\ pc'["disp"] = "idle"
          /\ TerminalEvents(wire') = TerminalEvents(wire)
          /\ CloseEvents(wire') = CloseEvents(wire)]_vars

(* The dispatcher's complete has returned on a non-chained async response
   with bytes still in the buffer, and later the continuation's
   async_complete sent them with the only terminal chunk. *)
C6_Witness ==
    /\ ~chained
    /\ keep_alive
    /\ WorkerDone
    /\ ~is_complete["disp"]
    /\ ContinuationDone
    /\ is_complete["ctx"]
    /\ Cardinality(TerminalEvents(wire)) = 1
    /\ \E i \in TerminalEvents(wire) : Len(wire[i].bytes) > Len(TerminalChunk)

(* C7.  A chained response never sends a header block, never sends the
   terminal chunk and never closes the write handle, whatever write, flush,
   complete and async_complete calls are made. *)
C7_ChainedNeverTerminates ==
    chained =>
        \A i \in DOMAIN wire :
            /\ wire[i].op = "write"
            /\ wire[i].hdr = <<>>
            /\ ~wire[i].term
            /\ ~HasSuffix(wire[i].bytes, TerminalChunk)

(* A chained keep-alive response after two complete calls and two writes to
   the handle, one of them with body bytes. *)
C7_Witness ==
    /\ chained
    /\ keep_alive
    /\ ncomplete >= 2
    /\ AllIdle
    /\ WriteCount(wire) >= 2
    /\ \E i \in DOMAIN wire : Len(wire[i].bytes) > 0

(* C8.  For a keep-alive, non-chained response driven by writes and
   flushes and then one complete, the bytes sent after the header block have
   the form (HEX "\r\n" BYTES "\r\n")* "0\r\n\r\n", each HEX the upper-case
   hexadecimal length of its BYTES and greater than zero. *)
C8_ChunkedWellFormed ==
    (keep_alive /\ ~chained /\ Completed) => ParseChunked(Body(wire)).ok

(* A completed keep-alive response that sent three chunks, one of them with
   a length that needs a hexadecimal letter. *)
C8_Witness ==
    /\ keep_alive
    /\ ~chained
    /\ Completed
    /\ Len(segs) = 3
    /\ \E i \in DOMAIN segs : Len(segs[i]) \in 10..15

(* C9.  In keep-alive mode the chunks on the wire are exactly the runs of
   bytes written between consecutive flushes (the last run ending at
   complete), one chunk per run, before and after completion; a handler
   that writes Hello and never flushes sends 5\r\nHello\r\n0\r\n\r\n. *)
C9_ChunksAreFlushes ==
    (keep_alive /\ ~chained) =>
        /\ ParseChunked(IF TerminalEvents(wire) = {}
                        THEN Body(wire) \o <<48, 13, 10, 13, 10>>
                        ELSE Body(wire)).chunks = segs
        /\ (Completed /\ nwrites = 1 /\ Len(wire) = 1 /\ segs = <<Hello>>) =>
               Body(wire) = <<53, 13, 10, 72, 101, 108, 108, 111, 13, 10,
                              48, 13, 10, 13, 10>>

(* A completed keep-alive response whose handler wrote twice before its
   first flush and once more before complete: two chunks, the first holding
   both writes. *)
C9_Witness ==
    /\ keep_alive
    /\ ~chained
    /\ Completed
    /\ nwrites = 3
    /\ Len(segs) = 2
    /\ Len(segs[1]) > Len(HelloWorld)
    /\ Len(wire) = 2

(* C10.  A non-keep-alive, non-chained response sends the header block with
   its first write, then the written bytes as they are, with no chunk length
   lines and no terminal chunk, and once complete has returned exactly one
   close, which comes after every write. *)
C10_CloseFraming ==
    (~keep_alive /\ ~chained) =>
        /\ Body(wire) = Flatten(segs)
        /\ TerminalEvents(wire) = {}
        /\ HeaderEvents(wire) \subseteq {1}
        /\ CloseEvents(wire) \subseteq {Len(wire)}
        /\ Completed =>
               /\ HeaderEvents(wire) = {1}
               /\ CloseEvents(wire) = {Len(wire)}
               /\ open = <<>>
               /\ buffer = <<>>

(* A completed non-keep-alive response that wrote body bytes in two flushes
   and was closed. *)
C10_Witness ==
    /\ ~keep_alive
    /\ ~chained
    /\ Completed
    /\ Len(segs) = 2
    /\ Len(wire) = 3
    /\ wire[3].op = "close"

(* C11.  Every byte given to write on a response or its clone before the
   response completes reaches the write handle exactly once and in the
   order written: at any moment the body bytes already sent, followed by
   the bytes still in the buffer, are the bytes written so far, and once
   complete has returned the buffer is empty and everything was sent. *)
C11_BytesOnceInOrder ==
    LET written == Flatten(segs) \o open
        sent == IF keep_alive
                THEN Flatten(ParseChunked(IF TerminalEvents(wire) = {}
                                          THEN Body(wire) \o TerminalChunk
                                          ELSE Body(wire)).chunks)
                ELSE Body(wire)
    IN  ~chained =>
            /\ sent \o buffer = written
            /\ Completed => buffer = <<>> /\ sent = written

(* A completed response with a clone: three writes, sent by two flushes
   and the completion. *)
C11_Witness ==
    /\ ~chained
    /\ live["local"]
    /\ Completed
    /\ nwrites = 3
    /\ Len(segs) = 3
    /\ segs[1] # segs[2]

(* C12.  Within one session id, the get_session(k) that comes right after
   set_session(k, v) returns Some(v), and the one that comes right after
   remove_session_entry(k) returns None. *)
C12_SessionRoundTrip ==
    session_last.op = "get" =>
        LET p == session_last.prev
        IN  /\ (/\ p.op = "set"
                /\ p.id = session_last.id
                /\ p.key = session_last.key) => session_ret = Some(p.val)
            /\ (/\ p.op = "remove"
                /\ p.id = session_last.id
                /\ p.key = session_last.key) => session_ret = None

(* get_session has just returned the two-byte value 300 that the call
   before it stored under the same key of the same session. *)
C12_Witness ==
    /\ session_last.op = "get"
    /\ session_last.prev = [op |-> "set", id |-> session_last.id,
                            key |-> session_last.key, val |-> 300]
    /\ session_ret = Some(300)

(* C13.  With session_timeout > 0, a housekeeper sweep leaves no session in
   the map whose last access lies more than session_timeout seconds,
   counted in milliseconds, before the sweep. *)
C13_SweepRemovesInactive ==
    [][(Housekeeper /\ SessionTimeout > 0) =>
          \A id \in DOMAIN session_map :
              now - session_map[id].mod_time > SessionTimeout * 1000
                  => id \notin DOMAIN session_map']_vars

(* C14.  With session_timeout = 0, or with no configuration recorded, a
   housekeeper sweep leaves the session map as it is. *)
C14_ZeroTimeoutKeepsSessions ==
    [][(Housekeeper /\ (rustlet_config = None \/ rustlet_config = Some(0)))
          => session_map' = session_map]_vars

(* The housekeeper has just run with session_timeout = 0 recorded, and a
   session last used two seconds ago is still in the map. *)
C14_Witness ==
    /\ session_last.op = "housekeeper"
    /\ rustlet_config = Some(0)
    /\ \E id \in DOMAIN session_map : now - session_map[id].mod_time >= 2000

(* The Set-Cookie header that binds a client to session `id`. *)
SessionSetCookie(id) ==
    <<"Set-Cookie", IF id = 5 THEN "rustletsessionid=5; path=/"
                    ELSE "rustletsessionid=16; path=/">>

HeaderBlocks == {wire[i].hdr[1].headers : i \in HeaderEvents(wire)}

NoSessionSetCookie ==
    \A h \in HeaderBlocks : \A id \in RandomIds : SessionSetCookie(id) \notin Range(h)

HasSessionSetCookie(id) ==
    \A h \in HeaderBlocks : SessionSetCookie(id) \in Range(h)

SessionBound == wpc \in {"call", "handler", "returned", "completing"} /\ ~chained

(* C15, as stated.  For a routed request: if the Cookie header carries a
   rustletsessionid that parses as u128, the session id is that value and no
   header block carries a rustletsessionid Set-Cookie; otherwise the session
   id is the generated id and every header block carries
   Set-Cookie: rustletsessionid=<id>; path=/ for it. *)
C15_CookieBinding ==
    SessionBound =>
        IF request.presented # None
        THEN /\ request.session_id = request.presented[1]
             /\ NoSessionSetCookie
        ELSE /\ request.session_id = request.fresh
             /\ HasSessionSetCookie(request.session_id)

(* C15, amended.  As C15, except that a request whose parseable
   rustletsessionid equals the id the dispatcher has just generated is
   taken for a request without the cookie: its session id is still the
   presented value, and every header block carries the Set-Cookie for it. *)
C15_CookieBindingUnlessSameId ==
    SessionBound =>
        IF request.presented # None /\ request.presented[1] # request.fresh
        THEN /\ request.session_id = request.presented[1]
             /\ NoSessionSetCookie
        ELSE /\ request.session_id = request.fresh
             /\ (request.presented # None
                    => request.session_id = request.presented[1])
             /\ HasSessionSetCookie(request.session_id)

(* A request that presented rustletsessionid=5 while 16 was generated has
   been answered, headers sent. *)
C15_Witness ==
    /\ ~chained
    /\ WorkerDone
    /\ request = [presented |-> Some(5), fresh |-> 16, session_id |-> 5]
    /\ HeaderEvents(wire) # {}

(* C16.  A URI in the route map is served by the handler path even when
   it ends in .rsp: when the request is served its handler has run, or has
   failed and left the request to the error finalizer; an unmapped URI
   ending in .rsp in any case is served by the template interpreter; every
   other URI takes the error path, where no handler runs. *)
C16_RoutingOrder ==
    nreq > 0 =>
        /\ route.uri \in {<<"/", "a", "b", "c">>, <<"/", "x", ".", "r", "s", "p">>}
               => /\ route.branch = "rustlet"
                  /\ wpc = "done" => live["local"] \/ route.failed
        /\ route.uri = <<"/", "g", "o", "n", "e">> => route.branch = "no_rustlet"
        /\ route.uri \in {<<"/", "a", ".", "r", "s", "p">>,
                          <<"/", "a", ".", "R", "S", "P">>}
               => route.branch = "rsp" /\ ~live["local"]
        /\ route.uri \in {<<"/", "n", "o", "p", "e">>, <<"/", "r", "s", "p">>}
               => route.branch = "error" /\ ~live["local"] /\ wpc = "done"

(* The second request of a worker is for the mapped "/x.rsp" and its
   handler is running. *)
C16_Witness ==
    /\ nreq = 2
    /\ route.uri = <<"/", "x", ".", "r", "s", "p">>
    /\ wpc = "handler"
    /\ live["local"]

(* The wire ends with the close of the write handle. *)
EndsWithClose == wire # <<>> /\ wire[Len(wire)] = CloseEvent

(* C17.  Once a request for a URI that is neither mapped nor a template
   page is served, the write handle has received the bytes of "Internal
   Server error. See logs for details." and then the close. *)
C17_ErrorBodyBeforeClose ==
    (wpc = "done" /\ route.branch = "error") =>
        /\ Body(wire) = InternalServerError
        /\ EndsWithClose

(* "Handler '<name>' does not exist." *)
HandlerDoesNotExist(name) ==
    <<72, 97, 110, 100, 108, 101, 114, 32, 39>>
    \o name
    \o <<39, 32, 100, 111, 101, 115, 32, 110, 111, 116, 32, 101, 120, 105, 115, 116, 46>>

(* C18.  Once a request mapped to an unregistered handler is served, the
   write handle has received a header block and then "Handler '<name>' does
   not exist.": as one chunk and the terminal chunk under keep-alive, as
   plain bytes and then the close otherwise. *)
C18_UnknownHandlerFramed ==
    (wpc = "done" /\ route.branch = "no_rustlet") =>
        LET text == HandlerDoesNotExist(Mappings[route.uri])
        IN  /\ HeaderEvents(wire) = {1}
            /\ IF route.keep_alive
               THEN Body(wire) = ChunkLenLine(Len(text)) \o text \o <<CR, LF>>
                                     \o TerminalChunk
               ELSE Body(wire) = text /\ EndsWithClose

(* C19.  Once the error finalizer has run for a handler that failed after
   its headers were written, the bytes on the write handle end with the
   separator line and the trailer, as a chunk followed by the terminal chunk
   under keep-alive and as plain bytes otherwise, and then comes the close. *)
C19_TrailerAfterHeaders ==
    (wpc = "done" /\ route.failed /\ route.branch = "rustlet"
         /\ HeaderEvents(wire) # {}) =>
        /\ EndsWithClose
        /\ IF route.keep_alive
           THEN HasSuffix(Body(wire),
                          ChunkLenLine(Len(ErrorTrailer)) \o ErrorTrailer
                              \o <<CR, LF>> \o TerminalChunk)
           ELSE HasSuffix(Body(wire), ErrorTrailer)

(* C20.  Once the error finalizer has run for a template page that failed
   before its header block, the write handle has received one header block,
   not keep-alive, then the error text, then the close; the write handle of
   a request never receives body bytes without a header block. *)
C20_FreshErrorResponse ==
    (wpc = "done" /\ route.failed /\ route.branch = "rsp") =>
        /\ HeaderEvents(wire) = {1}
        /\ ~wire[1].hdr[1].keep_alive
        /\ Body(wire) = InternalServerError
        /\ EndsWithClose

(* What the client has of the body: the chunks' bytes under keep-alive, the
   bytes as they are otherwise. *)
Unchunked(ka, bytes) ==
    IF ka THEN Flatten(ParseChunked(bytes).chunks) ELSE bytes

(* C21.  Once the panic hook has run for a handler that wrote bytes and
   panicked, the client has those bytes followed by the separator line and
   the error trailer, and the connection is closed. *)
C21_PanicTerminates ==
    (wpc = "hooked" /\ nwrites > 0) =>
        /\ HeaderEvents(wire) # {}
        /\ route.keep_alive => ParseChunked(Body(wire)).ok
        /\ Unchunked(route.keep_alive, Body(wire))
               = Flatten(segs) \o open \o ErrorTrailer
        /\ EndsWithClose

(* The request was served without an error. *)
ServedOk == wpc = "done" /\ ~route.failed

(* C22.  A template S0 <@=a> S1 <@=b> S2 with registered handlers, any of
   S0, S1, S2 empty or not, is served without an error, its stream is
   well-formed, and the body after unchunking is S0, what a wrote, S1, what
   b wrote, S2, in this order. *)
C22_TemplateComposition ==
    \A s0 \in {<<>>, <<120>>}, s1 \in {<<>>, <<121>>}, s2 \in {<<>>, <<119>>} :
        (rsp.page = Template(s0, s1, s2) /\ wpc = "done") =>
            /\ ~route.failed
            /\ Len(rsp.outs) = 2
            /\ route.keep_alive => ParseChunked(Body(wire)).ok
            /\ Unchunked(route.keep_alive, Body(wire))
                   = s0 \o rsp.outs[1] \o s1 \o rsp.outs[2] \o s2

(* C23.  For a page whose last "<@=" has no ">" after it, process_rsp does
   not return Ok, the error it returns is the invalid-template error, and it
   never comes back to the top of its inner loop without having moved
   start forward, which is how it would fail to terminate. *)
C23_UnterminatedEscapeFails ==
    [][rsp.page \in UnterminatedPages =>
          /\ wpc' = "done" => route'.failed /\ rsp'.err = "InvalidRSPError"
          /\ (wpc = "rsp_escape" /\ wpc' = "rsp_scan") => rsp'.start > rsp.start]_vars

(* The handler calls set_content_type! after it has written. *)
ContentTypeAfterWrite ==
    wpc = "handler" /\ nwrites > 0 /\ SetContentType("local", "text/plain")

(* The dispatcher's complete has ended a non-chained response: one header
   block, the written bytes, and the terminal chunk as the last thing under
   keep-alive, the close otherwise. *)
CompletedNormally ==
    /\ Cardinality(HeaderEvents(wire)) = 1
    /\ Unchunked(keep_alive, Body(wire)) = Flatten(segs) \o open
    /\ IF keep_alive
       THEN ParseChunked(Body(wire)).ok /\ CloseEvents(wire) = {}
       ELSE CloseEvents(wire) = {Len(wire)}

(* C24, as stated.  A set_content_type call that follows a write returns
   the ordering error. *)
C24_WriteLatchesHeaders ==
    [][ContentTypeAfterWrite => result' = "OrderingError"]_vars

(* C24, amended.  A set_content_type call that follows a write returns the
   ordering error when the response was flushed before the call and Ok when
   it was not; either way the response completes normally. *)
C24_FlushLatchesHeaders ==
    /\ [][ContentTypeAfterWrite
              => (result' = "OrderingError" <=> WriteCount(wire) > 0)]_vars
    /\ []((WorkerDone /\ ~chained /\ nwrites > 0) => CompletedNormally)

(* The handler wrote a byte, flushed, got the ordering error from
   set_content_type!, and the response is complete. *)
C24_Witness ==
    /\ WorkerDone
    /\ ~chained
    /\ nwrites = 1
    /\ result = "OrderingError"
    /\ additional_headers["local"] = additional_headers["disp"]

-----------------------------------------------------------------------------
(* SpecContainer: the embedding surface of RustletContainer (lines 1055-1129):
   set_config, start, add_rustlet, add_rustlet_mapping in any order, and the
   routing of do_api_callback over the registry they built. *)

MaxStarts == 2

(* The paths and names given to add_rustlet_mapping and add_rustlet, and the
   closures registered: two distinguishable handlers. *)
ContainerPaths == {<<"/", "a", "b", "c">>, <<"/", "x", ".", "r", "s", "p">>}

ContainerNames == {<<97, 98, 99>>, <<97>>}

ContainerFns == {1, 2}

ContainerUris == ContainerPaths \cup {<<"/", "n", "o", "p", "e">>}

(* The results the HttpServer calls followed by "?" can have: http.start(),
   http.add_api_extension(..), http.add_api_mapping(..). *)
HttpResults == {"Ok", "Err"}

(* RustletContainer::start: without a server, the error is logged and Ok(())
   returned; with one, the three callbacks are assigned, http.start() is
   called and its error propagated.  Nothing records that start was called. *)
Start(res) ==
    /\ container.starts < MaxStarts
    /\ IF container.http = None
       THEN /\ res = "Ok"
            /\ container' = [container EXCEPT !.op = "start", !.ret = "Ok",
                                              !.starts = @ + 1]
       ELSE container' = [container EXCEPT
                !.http = Some([callbacks |-> TRUE,
                               started |-> @[1].started \/ res = "Ok"]),
                !.op = "start", !.ret = res, !.starts = @ + 1,
                !.installs = @ + 1, !.http_starts = @ + 1]
    /\ UNCHANGED <<session_map, now, rustlet_config, session_ret, session_last,
                   respFrame>>

(* RustletContainer::add_rustlet: rustlets.insert(name, rustlet) under
   lockw!(RUSTLETS), which waits while a read guard is held. *)
AddRustlet(name, fn) ==
    /\ container.rlocks = 0
    /\ container' = [container EXCEPT
            !.rustlets = MapInsert(@, name, fn),
            !.op = "add_rustlet", !.ret = "Ok"]
    /\ UNCHANGED <<session_map, now, rustlet_config, session_ret, session_last,
                   respFrame>>

(* RustletContainer::add_rustlet_mapping: with a server, add_api_mapping and
   mappings.insert(path, name); without one, the error is logged, nothing is
   inserted and Ok(()) returned.  added keeps the mapping of every call that
   returned Ok.  lockw!(RUSTLETS) (line 1111) waits while a read guard is
   held. *)
AddRustletMapping(path, name, res) ==
    /\ container.rlocks = 0
    /\ IF container.http = None
       THEN /\ res = "Ok"
            /\ container' = [container EXCEPT
                    !.added = MapInsert(@, path, name),
                    !.op = "add_rustlet_mapping", !.ret = "Ok"]
       ELSE IF res = "Ok"
       THEN container' = [container EXCEPT
                !.mappings = MapInsert(@, path, name),
                !.added = MapInsert(@, path, name),
                !.op = "add_rustlet_mapping", !.ret = "Ok"]
       ELSE container' = [container EXCEPT
                !.op = "add_rustlet_mapping", !.ret = "Err"]
    /\ UNCHANGED <<session_map, now, rustlet_config, session_ret, session_last,
                   respFrame>>

(* do_api_callback, lines 872-919, over the registry as it is now: the mapped
   name, or the branch that serves an unmapped URI. *)
RouteIn(mappings, uri) ==
    IF uri \in DOMAIN mappings
    THEN [branch |-> "mapped", name |-> mappings[uri], fn |-> 0]
    ELSE IF EndsWith(ToLowercase(uri), <<".", "r", "s", "p">>)
    THEN [branch |-> "rsp", name |-> <<>>, fn |-> 0]
    ELSE [branch |-> "error", name |-> <<>>, fn |-> 0]

(* The started server calls api_callback for a request of uri.
   do_api_callback takes a read guard on RUSTLETS (line 872), which lives to
   the end of the function, and looks the URI up: a mapped one goes on to
   execute_rustlet; for the others the function returns and drops the guard. *)
ContainerDispatch(uri) ==
    /\ container.http # None
    /\ container.http[1].started
    /\ container.dpc = "idle"
    /\ LET r == RouteIn(container.mappings, uri) IN
       container' = [container EXCEPT
            !.op = "dispatch",
            !.ran = Some([uri |-> uri] @@ r),
            !.dpc = IF r.branch = "mapped" THEN "execute" ELSE "idle",
            !.rlocks = IF r.branch = "mapped" THEN 1 ELSE 0]
    /\ UNCHANGED <<session_map, now, rustlet_config, session_ret, session_last,
                   respFrame>>

(* execute_rustlet, lines 783-786: a second read guard on RUSTLETS, which
   lives to the end of the function because the closure found is borrowed
   from it, and the lookup of the name.  For a registered name the worker
   goes on to call the closure (line 832); otherwise both functions return
   and drop their guards. *)
ContainerExecute ==
    /\ container.dpc = "execute"
    /\ LET name == container.ran[1].name IN
       IF name \in DOMAIN container.rustlets
       THEN container' = [container EXCEPT
                !.ran = Some([container.ran[1] EXCEPT
                                 !.branch = "rustlet",
                                 !.fn = container.rustlets[name]]),
                !.dpc = "handler",
                !.rlocks = @ + 1]
       ELSE container' = [container EXCEPT
                !.ran = Some([container.ran[1] EXCEPT !.branch = "no_rustlet"]),
                !.dpc = "idle",
                !.rlocks = 0]
    /\ UNCHANGED <<session_map, now, rustlet_config, session_ret, session_last,
                   respFrame>>

(* The closure returns (line 832), execute_rustlet and do_api_callback
   return, and their guards are dropped. *)
ContainerHandlerReturn ==
    /\ container.dpc = "handler"
    /\ container' = [container EXCEPT !.dpc = "idle", !.rlocks = 0]
    /\ UNCHANGED <<session_map, now, rustlet_config, session_ret, session_last,
                   respFrame>>

InitContainer == InitSession

NextContainer ==
    \/ \E t \in SessionTimeouts : rustlet_config = None /\ SetConfig(t)
    \/ \E res \in HttpResults : Start(res)
    \/ \E name \in ContainerNames, fn \in ContainerFns : AddRustlet(name, fn)
    \/ \E path \in ContainerPaths, name \in ContainerNames, res \in HttpResults :
           AddRustletMapping(path, name, res)
    \/ \E uri \in ContainerUris : ContainerDispatch(uri)
    \/ ContainerExecute
    \/ ContainerHandlerReturn

SpecContainer == InitContainer /\ [][NextContainer]_vars

(* SpecLock: a dispatch and registrations contending for the RwLock of
   RUSTLETS.  A registration that finds read guards held waits for the
   write lock; a read requested while a writer waits is let in or made to
   wait behind the writer, as the lock implementation decides; a handler
   that registers asks for the write lock on the thread that holds the read
   guards. *)

(* Another thread calls add_rustlet while the dispatch holds a read guard:
   lockw!(RUSTLETS), line 1102, blocks. *)
RegistrationWaits ==
    /\ container.rlocks > 0
    /\ ~container.wwait
    /\ container.dpc # "deadlocked"
    /\ container' = [container EXCEPT !.wwait = TRUE]
    /\ UNCHANGED <<session_map, now, rustlet_config, session_ret, session_last,
                   respFrame>>

(* The waiting registration gets the write lock once no read guard is held,
   and add_rustlet inserts (lines 1103-1107). *)
RegistrationProceeds(name, fn) ==
    /\ container.wwait
    /\ container.rlocks = 0
    /\ container' = [container EXCEPT
            !.rustlets = MapInsert(@, name, fn),
            !.op = "add_rustlet", !.ret = "Ok", !.wwait = FALSE]
    /\ UNCHANGED <<session_map, now, rustlet_config, session_ret, session_last,
                   respFrame>>

(* execute_rustlet's lockr!(RUSTLETS), line 783, on the thread that holds the
   guard of line 872: with no writer waiting the guard is given; with one
   waiting the lock either lets the reader in or queues it behind the
   writer, which waits for the guard of line 872: neither goes on. *)
LockedExecute ==
    \/ ContainerExecute
    \/ /\ container.dpc = "execute"
       /\ container.wwait
       /\ container' = [container EXCEPT !.dpc = "deadlocked"]
       /\ UNCHANGED <<session_map, now, rustlet_config, session_ret,
                      session_last, respFrame>>

(* The handler body registers a rustlet (rustlet!, add_rustlet): its thread
   asks for the write lock of RUSTLETS while it holds the two read guards,
   and waits for itself. *)
HandlerRegisters ==
    /\ container.dpc = "handler"
    /\ container' = [container EXCEPT !.dpc = "deadlocked"]
    /\ UNCHANGED <<session_map, now, rustlet_config, session_ret, session_last,
                   respFrame>>

NextLock ==
    \/ \E t \in SessionTimeouts : rustlet_config = None /\ SetConfig(t)
    \/ Start("Ok")
    \/ \E name \in ContainerNames : AddRustlet(name, 1)
    \/ \E path \in ContainerPaths, name \in ContainerNames :
           ~container.wwait /\ AddRustletMapping(path, name, "Ok")
    \/ \E uri \in ContainerPaths : ~container.wwait /\ ContainerDispatch(uri)
    \/ LockedExecute
    \/ ContainerHandlerReturn
    \/ RegistrationWaits
    \/ \E name \in ContainerNames : RegistrationProceeds(name, 2)
    \/ HandlerRegisters

(* Every thread that can take a step takes one: the scheduler starves none,
   and a handler returns. *)
SpecLock == InitContainer /\ [][NextLock]_vars /\ WF_vars(NextLock)

(* C25: start() succeeds at most once for a container: a second call returns
   an error and neither installs the callbacks nor starts the event runtime
   again. *)
C25_StartAtMostOnce ==
    (container.op = "start" /\ container.starts >= 2) =>
        /\ container.ret = "Err"
        /\ container.installs <= 1
        /\ container.http_starts <= 1

(* C26: after add_rustlet_mapping(path, name) returned Ok, before or after
   set_config and start, a dispatch of exactly that path runs the handler
   registered under name at the time of the dispatch. *)
C26_MappingDispatches ==
    [][/\ \A uri \in ContainerPaths :
            (/\ ContainerDispatch(uri)
             /\ uri \in DOMAIN container.added
             /\ container.added[uri] \in DOMAIN container.rustlets)
            => /\ container'.dpc = "execute"
               /\ container'.ran[1].name = container.added[uri]
       /\ (/\ ContainerExecute
           /\ container.ran[1].name \in DOMAIN container.rustlets)
          => /\ container'.dpc = "handler"
             /\ container'.ran[1].fn = container.rustlets[container.ran[1].name]]_vars

(* C27: when a handler is invoked, the dispatching worker holds no lock on the
   handler registry: the guards taken for the lookups were released before
   the handler runs. *)
C27_NoRegistryLockInHandler ==
    container.dpc = "handler" => container.rlocks = 0

-----------------------------------------------------------------------------
(* SpecHeaders: the headers of a request as a handler reads them with
   header_len!(), header_name!(i) and header_value!(i). *)

MaxRequestHeaders == 3

(* A header name that is not UTF-8. *)
NonUtf8 == "\\xff"

HeaderNames == {"a", "b", NonUtf8}

HeaderValues == {"1", "2"}

(* The headers the parser hands over: Vec<(Vec<u8>, Vec<u8>)>, in wire order,
   names repeated or not. *)
HeaderLists ==
    UNION {[1..n -> HeaderNames \X HeaderValues] : n \in 0..MaxRequestHeaders}

(* std::str::from_utf8 *)
FromUtf8(bytes) == IF bytes = NonUtf8 THEN None ELSE Some(bytes)

(* build_header_map, lines 355-371: a HashMap from name to value; headers that
   are not UTF-8 are skipped, a repeated name replaces the entry. *)
RECURSIVE BuildHeaderMap(_)
BuildHeaderMap(headers) ==
    IF headers = <<>> THEN <<>>
    ELSE LET h == headers[Len(headers)]
             map == BuildHeaderMap(SubSeq(headers, 1, Len(headers) - 1))
         IN IF FromUtf8(h[1]) = None \/ FromUtf8(h[2]) = None
            THEN map
            ELSE MapInsert(map, h[1], h[2])

(* get_header_i_name / get_header_i_value, lines 273-293; i counts from 0. *)
GetHeaderI(headers, i, field) ==
    IF i >= Len(headers) THEN ""
    ELSE IF FromUtf8(headers[i + 1][field]) = None THEN ""
    ELSE headers[i + 1][field]

(* format!("{}", n) of a usize: its decimal digits. *)
RECURSIVE FormatUsize(_)
FormatUsize(n) ==
    IF n < 10 THEN <<Digits[n + 1]>>
    ELSE Append(FormatUsize(n \div 10), Digits[(n % 10) + 1])

(* RustletRequest::new: the request of a dispatch carries the headers. *)
HeadersRequest(headers) ==
    /\ header_req.pc \in {"none", "done"}
    /\ header_req' = [headers |-> headers, header_map |-> None, len |-> 0, i |-> 0,
               visited |-> <<>>, pc |-> "handler"]
    /\ UNCHANGED <<respVars, wpc, cpc, sessVars, request, route, stale_hw, nreq,
                   rsp>>

(* header_len!(): request!("header_len") formats get_header_len(), which
   builds the map if there is none and returns map.len(); the macro parses
   the decimal back.  It is the bound of the handler's loop. *)
HeaderLen ==
    /\ header_req.pc = "handler"
    /\ LET map == IF header_req.header_map = None THEN BuildHeaderMap(header_req.headers)
                  ELSE header_req.header_map[1]
           parsed == ParseU128(FormatUsize(Cardinality(DOMAIN map)))
           n == IF parsed = None THEN 0 ELSE parsed[1]
       IN header_req' = [header_req EXCEPT !.header_map = Some(map), !.len = n,
                             !.pc = IF n = 0 THEN "done" ELSE "loop"]
    /\ UNCHANGED <<respVars, wpc, cpc, sessVars, request, route, stale_hw, nreq,
                   rsp>>

(* One iteration of the loop: header_name!(i) and header_value!(i). *)
HeaderVisit ==
    /\ header_req.pc = "loop"
    /\ header_req' = [header_req EXCEPT
            !.visited = Append(@, <<GetHeaderI(header_req.headers, header_req.i, 1),
                                    GetHeaderI(header_req.headers, header_req.i, 2)>>),
            !.i = @ + 1,
            !.pc = IF header_req.i + 1 = header_req.len THEN "done" ELSE "loop"]
    /\ UNCHANGED <<respVars, wpc, cpc, sessVars, request, route, stale_hw, nreq,
                   rsp>>

InitHeaders == InitCallback

NextHeaders ==
    \/ \E headers \in HeaderLists : HeadersRequest(headers)
    \/ HeaderLen
    \/ HeaderVisit

SpecHeaders == InitHeaders /\ [][NextHeaders]_vars

(* C28: header_len!() is the number of headers sent in the request, and the
   loop over 0..header_len!() with header_name!(i) and header_value!(i) visits
   every header once, in wire order, repeated names included. *)
C28_HeaderIteration ==
    header_req.pc = "done" =>
        /\ header_req.len = Len(header_req.headers)
        /\ header_req.visited = [k \in 1..Len(header_req.headers) |->
                             <<GetHeaderI(header_req.headers, k - 1, 1),
                               GetHeaderI(header_req.headers, k - 1, 2)>>]

(* LOCALRUSTLET holds the pair an earlier request's handler left there. *)
SlotIsStale == ~live["local"] /\ stale_hw # None

(* C29: the worker's slot is cleared or overwritten on every dispatch: when a
   handler runs, and when the error finalizer is about to inspect the slot,
   the slot holds the pair of the request being dispatched or is empty, never
   the pair of an earlier request. *)
C29_SlotOfThisRequest ==
    /\ wpc = "handler" => live["local"]
    /\ wpc = "failed" => ~SlotIsStale

(* C30: for a well-formed template served under keep-alive (the empty file,
   a file that starts with an escape and two adjacent escapes included), the
   bytes after the header block are chunks of non-zero length followed by
   "0\r\n\r\n" once, at the very end: the terminal chunk is written exactly
   once, after the last static segment, and no static segment of length zero
   is written as a chunk of length zero. *)
C30_TerminalChunkOnce ==
    (ServedOk /\ route.branch = "rsp" /\ route.keep_alive
       /\ rsp.page \notin UnterminatedPages) =>
        ParseChunked(Body(wire)).ok

(* The worker is between reaching an escape of a template and the return of
   the chained execute_rustlet made for it. *)
InEscape == wpc \notin {"idle", "rsp_scan", "failed", "done"}

(* C31: a chained execute_rustlet made for an escape of a template, for a
   registered name or not, puts on the write handle no header block, no
   terminal chunk and no close. *)
C31_ChainedExecuteIsQuiet ==
    [][InEscape =>
          \A i \in (Len(wire) + 1)..Len(wire') :
              /\ wire'[i].hdr = <<>>
              /\ ~wire'[i].term
              /\ wire'[i].op # "close"]_vars

(* The bytes of buf between the triple at end and the first ">" after it,
   wherever in buf that ">" is. *)
NameOfEscape(buf, end) ==
    LET hits == {i \in (end + 3)..(Len(buf) - 1) : buf[i + 1] = GtChar}
    IN  Slice(buf, end + 3, CHOOSE i \in hits : \A j \in hits : i <= j)

(* C32: in a template whose every "<@=" has a ">" somewhere after it, the
   last byte of the file included, each escape reached is closed: the handler
   named by the bytes up to the first such ">" is executed, the scan moves
   past it, and no invalid-template error is returned. *)
C32_ClosingByteAnywhere ==
    [][(wpc = "rsp_escape" /\ rsp.page \notin UnterminatedPages) =>
          /\ wpc' # "failed"
          /\ rsp'.err = "none"
          /\ rsp'.name = NameOfEscape(rsp.page, rsp.end)
          /\ rsp'.start > rsp.start]_vars

(* C33: while the handler of an escape runs for a template request that
   presented no parseable rustletsessionid cookie, the header block of the
   response, already sent, carries Set-Cookie: rustletsessionid=<id>; path=/
   for the session id the handler is bound to. *)
C33_TemplateSetsSessionCookie ==
    (route.branch = "rsp" /\ wpc = "handler" /\ request.presented = None) =>
        /\ HeaderBlocks # {}
        /\ \A h \in HeaderBlocks : SessionSetCookie(request.session_id) \in Range(h)

(* A mapped handler wrote bytes and returned an error. *)
HandlerErredAfterWrite == route.branch = "rustlet" /\ nwrites > 0 /\ ~chained

(* C34: when a top-level handler has written bytes and returned an error,
   then before the error finalizer runs the header block and after it all the
   bytes written are on the write handle and complete was not called; and
   under keep-alive, once the finalizer has run, the stream is the handler's
   bytes and the trailer in chunks, one terminal chunk, and the close. *)
C34_ErrFlushesThenTrailer ==
    /\ (wpc = "failed" /\ HandlerErredAfterWrite) =>
           /\ HeaderEvents(wire) = {1}
           /\ open = <<>>
           /\ Unchunked(route.keep_alive, Body(wire)) = Flatten(segs)
           /\ Flatten(segs) # <<>>
           /\ ncomplete = 0
           /\ TerminalEvents(wire) = {}
           /\ CloseEvents(wire) = {}
    /\ (wpc = "done" /\ route.failed /\ route.keep_alive /\ HandlerErredAfterWrite) =>
           /\ ParseChunked(Body(wire)).ok
           /\ Unchunked(TRUE, Body(wire)) = Flatten(segs) \o ErrorTrailer
           /\ Cardinality(TerminalEvents(wire)) = 1
           /\ CloseEvents(wire) = {Len(wire)}
           /\ ncomplete = 0

(* A keep-alive handler wrote "hello", returned an error, and the finalizer
   has sent the trailer. *)
C34_Witness ==
    /\ wpc = "done"
    /\ route.failed
    /\ route.keep_alive
    /\ HandlerErredAfterWrite
    /\ Flatten(segs) = Hello
    /\ EndsWithClose

(* The entries stored in every session but id are the same before and after
   the step. *)
OtherSessionsKept(id) ==
    \A x \in DOMAIN session_map \ {id} :
        x \in DOMAIN session_map' /\ session_map'[x].data = session_map[x].data

(* C35: get_session for a session id without an entry returns None and
   leaves an empty SessionData for that id in the map; remove_session_entry
   with a name the session does not have, or for a session id without an
   entry, leaves every stored entry as it was and creates no session. *)
C35_GetCreatesRemoveDoesNot ==
    [][\A id \in SessionIds, name \in SessionKeys :
          /\ (GetSession(id, name) /\ id \notin DOMAIN session_map) =>
                 /\ session_ret' = None
                 /\ DOMAIN session_map' = DOMAIN session_map \cup {id}
                 /\ session_map'[id].data = <<>>
                 /\ OtherSessionsKept(id)
          /\ (/\ RemoveSessionEntry(id, name)
              /\ \/ id \notin DOMAIN session_map
                 \/ name \notin DOMAIN session_map[id].data) =>
                 /\ DOMAIN session_map' = DOMAIN session_map
                 /\ \A x \in DOMAIN session_map :
                        session_map'[x].data = session_map[x].data]_vars

(* remove_session_entry has just been called for a session id without an
   entry, while another session holds a value; and the map still has no
   entry for that id. *)
C35_Witness ==
    /\ session_last.op = "remove"
    /\ session_last.id \notin DOMAIN session_map
    /\ \E x \in DOMAIN session_map : session_map[x].data # <<>>

(* C40: in every housekeeper sweep the subtraction now - mod_time does not
   underflow: every stored mod_time is at most the time the sweep reads,
   also when the wall clock was read differently at the session's creation
   or access. *)
C40_SweepSubtractionInRange ==
    [][((Housekeeper \/ HousekeeperPanics) /\ SweepEnabled(SessionTimeout)) =>
          \A id \in DOMAIN session_map : session_map[id].mod_time <= now]_vars

(* C36: a session leaves the map only in invalidate_session for its id or in
   a housekeeper sweep; and a sweep keeps, with all its entries, every
   session whose last get_session, set_session or remove_session_entry was
   stamped no more than session_timeout seconds before the time the sweep
   reads. *)
C36_RecentSessionsSurvive ==
    [][/\ \A id \in DOMAIN session_map :
              id \notin DOMAIN session_map' => (InvalidateSession(id) \/ Housekeeper)
       /\ (Housekeeper /\ SessionTimeout > 0) =>
              \A id \in DOMAIN session_map :
                  now - session_map[id].mod_time <= SessionTimeout * 1000
                      => /\ id \in DOMAIN session_map'
                         /\ session_map'[id] = session_map[id]]_vars

(* C37: on a keep-alive response, a flush called with an empty buffer on a
   clone that is not complete sends no chunk: its write carries no body
   bytes and no terminal chunk, and carries the header block exactly when
   the headers were not written yet and the response is not chained. *)
C37_EmptyFlushSendsNoChunk ==
    [][\A c \in ApiClones :
          (Flush(c) /\ keep_alive /\ buffer = <<>> /\ ~is_complete[c]) =>
              LET e == wire'[Len(wire')]
              IN  /\ Len(wire') = Len(wire) + 1
                  /\ e.bytes = <<>>
                  /\ ~e.term
                  /\ e.hdr # <<>> <=> (~headers_written /\ ~chained)]_vars

(* A keep-alive response, not completed, whose second flush found the
   buffer empty: a write with neither header block nor bytes. *)
C37_Witness ==
    /\ keep_alive
    /\ ~chained
    /\ ncomplete = 0
    /\ Len(wire) = 2
    /\ wire[1].hdr # <<>>
    /\ wire[2] = WriteEvent(<<>>, <<>>, FALSE)

(* The response is over for the client: the terminal chunk was written or
   the write handle closed. *)
StreamEnded == TerminalEvents(wire) # {} \/ CloseEvents(wire) # {}

(* C38: once the terminal chunk was written or the write handle closed, no
   write, flush, complete or async_complete on the response or a clone of it
   puts further bytes on the write handle, a second terminal chunk
   included. *)
C38_NothingAfterTheEnd ==
    [][StreamEnded =>
          \A i \in (Len(wire) + 1)..Len(wire') :
              wire'[i].op = "write" =>
                  /\ wire'[i].hdr = <<>>
                  /\ wire'[i].bytes = <<>>]_vars

(* C39: registration concurrent with dispatch never deadlocks: a dispatch
   that has taken the read lock of the registry comes to its end, and a
   registration that waits for the write lock gets it. *)
C39_NoRegistryDeadlock ==
    /\ (container.dpc # "idle") ~> (container.dpc = "idle")
    /\ container.wwait ~> ~container.wwait

=============================================================================
